---- MODULE Spec2Model ----
(***************************************************************************)
(* Model of the benchmarking core of IA LIBRE:                             *)
(*   scripts/sandbox_runner.py      run_code_in_sandbox (IsolatedExecutor) *)
(*   scripts/gpu_monitor.py         GPUMonitor          (TelemetrySampler) *)
(*   scripts/run_vllm_test_local.py run_benchmark       (orchestrator)     *)
(*   scripts/ci_benchmark_http.py   run                 (orchestrator)     *)
(*                                                                         *)
(* Time is a discrete clock (one unit = one second).  A step of the        *)
(* foreground flow that does not block takes no time; the clock advances   *)
(* only while the foreground flow is blocked in a subprocess, a network    *)
(* call or a join.                                                         *)
(***************************************************************************)
EXTENDS Integers, Sequences, FiniteSets, TLC

\* ---------------------------------------------------------------- bounds
\* Largest clock value of a run of run_code_in_sandbox.
MaxClock == 4
\* Largest `timeout` argument tried for run_code_in_sandbox.
MaxTimeout == 1
\* Longest assertion list tried.
MaxTests == 2
\* Largest clock value within one task of an orchestrator.
MaxOrchClock == 5
\* Longest task list tried for run_benchmark.
MaxTasks == 2
\* The sample count is tracked up to this many samples.
MaxSamples == 1

\* ------------------------------------------------------ program constants
\* sandbox_runner.py:138   proc.communicate(timeout=timeout + 2)
GRACE == 2
\* gpu_monitor.py:159      self._thread.join(timeout=5)
JOIN_TIMEOUT == 5
\* ci_benchmark_http.py:23-42   len(MINI_HUMANEVAL)
CI_NUM_TASKS == 3

\* ------------------------------------------------- Python / JSON values
\* A Python value as far as the result line needs it: None, a bool, a str,
\* or "absent" for a key that a dict does not hold.
PyNone == [t |-> "none", b |-> FALSE, s |-> ""]
PyAbsent == [t |-> "absent", b |-> FALSE, s |-> ""]
PyBool(x) == [t |-> "bool", b |-> x, s |-> ""]
PyStr(x) == [t |-> "str", b |-> FALSE, s |-> x]

\* bool(v) of Python.
Truthy(v) ==
    CASE v.t = "bool" -> v.b
      [] v.t = "str" -> v.s # ""
      [] OTHER -> FALSE

\* dict.get(key, default): the value, or the default when the key is absent.
DictGet(v, default) == IF v.t = "absent" THEN default ELSE v

\* A line of stdout.  kind: "obj" a JSON object (with its "passed" and
\* "detail" members), "nonobj" any other JSON text ([1], null, 3),
\* "text" text that is no JSON, "blank" an empty or whitespace-only line.
Line(kind, passed, detail) == [kind |-> kind, passed |-> passed, detail |-> detail]
TextLine == Line("text", PyAbsent, PyAbsent)
BlankLine == Line("blank", PyAbsent, PyAbsent)
NonObjLine == Line("nonobj", PyAbsent, PyAbsent)
\* A result-shaped line written by the candidate itself.
ForgedPass == Line("obj", PyBool(TRUE), PyNone)
\* {} : a JSON object without the two keys.
EmptyObj == Line("obj", PyAbsent, PyAbsent)

\* json.dumps(result) of the harness: result is {'passed': bool, 'detail': None|str}.
JsonDumps(result) == Line("obj", result.passed, result.detail)

\* ------------------------------------------------ candidate and assertions
\* What executing one statement does: "ok" it completes, "raise" it raises
\* an exception of class cls whose str() is msg, "loop" it never completes,
\* "syntax" it does not compile.
Stmt(do, cls, msg) == [do |-> do, cls |-> cls, msg |-> msg]
StmtOk == Stmt("ok", "", "")
\* `assert <expr>` with <expr> false: AssertionError(), str(e) = "".
StmtAssertBare == Stmt("raise", "AssertionError", "")
\* `assert <expr>, "msg"` with <expr> false.
StmtAssertMsg == Stmt("raise", "AssertionError", "msg")
\* any other exception, e.g. NameError("name 'factorial' is not defined").
StmtRaise == Stmt("raise", "Exception", "boom")
\* sys.exit(): SystemExit is a BaseException, it is no Exception.
StmtExit == Stmt("raise", "SystemExit", "")
StmtLoop == Stmt("loop", "", "")
StmtSyntax == Stmt("syntax", "", "")

TestStmts == {StmtOk, StmtAssertBare, StmtAssertMsg, StmtRaise, StmtLoop}

\* Candidate code: the lines it prints while it runs at module level, how its
\* module-level execution ends, and the lines an exit hook it registered
\* prints when the interpreter shuts down.
Code(out, end, late) == [out |-> out, end |-> end, late |-> late]
CodeOuts == {<<>>, <<TextLine, BlankLine>>, <<NonObjLine>>, <<ForgedPass>>, <<EmptyObj>>}
CodeEnds == {StmtOk, StmtRaise, StmtExit, StmtLoop, StmtSyntax}
CodeLates == {<<>>, <<ForgedPass>>}
Codes == {Code(o, e, l) : o \in CodeOuts, e \in CodeEnds, l \in CodeLates}

TestLists == UNION {[1..n -> TestStmts] : n \in 0..MaxTests}
Timeouts == 1..MaxTimeout

\* ------------------------------------------------------------ the harness
\* script_text: the candidate code verbatim, then the assertions, one per
\* line, as the body of a single try statement with the two handlers, then
\* the print of the result line.
script_text(code, tests) == [code |-> code, try_body |-> tests]

\* A try statement with an empty body does not compile, neither does a
\* script whose embedded candidate does not.
Compiles(script) == script.code.end.do # "syntax" /\ Len(script.try_body) > 0

\* The guarded block: result starts as {'passed': True, 'detail': None};
\* statements run in order; the first one that raises leaves the block.
\* ctl: "print" control reaches print(json.dumps(result)), "exit" the
\* exception is caught by neither handler, "loop" the block never completes.
RECURSIVE TryBlock(_, _)
TryBlock(body, i) ==
    IF i > Len(body)
    THEN [ctl |-> "print", result |-> [passed |-> PyBool(TRUE), detail |-> PyNone]]
    ELSE LET st == body[i] IN
         CASE st.do = "ok" -> TryBlock(body, i + 1)
           [] st.do = "loop" ->
                [ctl |-> "loop", result |-> [passed |-> PyBool(TRUE), detail |-> PyNone]]
           [] st.do = "raise" /\ st.cls = "AssertionError" ->
                [ctl |-> "print",
                 result |-> [passed |-> PyBool(FALSE), detail |-> PyStr(st.msg)]]
           [] st.do = "raise" /\ st.cls = "Exception" ->
                [ctl |-> "print",
                 result |-> [passed |-> PyBool(FALSE),
                             detail |-> PyStr("EXCEPTION: " \o st.msg)]]
           [] OTHER ->
                [ctl |-> "exit", result |-> [passed |-> PyBool(TRUE), detail |-> PyNone]]

\* What `python -u run_test.py` does with the script: whether it terminates,
\* and the stdout and stderr it has written when it does.
Run(term, out, err) == [term |-> term, stdout |-> out, stderr |-> err]
PythonRun(script) ==
    LET code == script.code
        blk == TryBlock(script.try_body, 1)
    IN  IF ~Compiles(script) THEN Run(TRUE, <<>>, "SyntaxError")
        ELSE CASE code.end.do = "loop" -> Run(FALSE, code.out, "")
               [] code.end.do = "raise" /\ code.end.cls = "SystemExit" ->
                    Run(TRUE, code.out \o code.late, "")
               [] code.end.do = "raise" ->
                    Run(TRUE, code.out \o code.late, "Traceback")
               [] blk.ctl = "loop" -> Run(FALSE, code.out, "")
               [] blk.ctl = "exit" -> Run(TRUE, code.out \o code.late, "")
               [] OTHER ->
                    Run(TRUE, code.out \o <<JsonDumps(blk.result)>> \o code.late, "")

\* ------------------------------------------------------- result parsing
\* Variant: only non-JSON text is rejected; .get is used on any JSON value.
ParseRaises_text_only(last) == last.kind \in {"text", "blank"}

\* json.loads(last): raises on text that is no JSON (the empty string
\* included); .get raises on a value that is no dict.
ParseRaises(last) == last.kind # "obj"

\* sandbox_runner.py:141, 153, 156.  The result tuple (passed, stdout, stderr, meta).
Result(passed, out, err, meta) ==
    [passed |-> passed, stdout |-> out, stderr |-> err, meta |-> meta]

NonBlank(lines) == SelectSeq(lines, LAMBDA ln : ln.kind # "blank")

ParseOutput(out, err) ==
    LET lines == NonBlank(out)
        last == IF Len(lines) > 0 THEN lines[Len(lines)] ELSE BlankLine
    IN  IF ParseRaises(last)
        THEN Result(FALSE, out, err, PyStr("invalid_output"))
        ELSE Result(Truthy(DictGet(last.passed, PyBool(FALSE))), out, err,
                    DictGet(last.detail, PyNone))

\* ------------------------------------------------------------------ state
VARIABLES
    clock,      \* wall clock, in seconds (since the call of run_code_in_sandbox,
                \* or since the orchestrator began its current task)
    sb,         \* the running call of run_code_in_sandbox: its arguments,
                \* its position (pc), what it has done so far and its result
    proc,       \* the docker client process of Popen: none/running/exited/killed
    container,  \* the container the client asked the daemon for:
                \* none/running/exited
    pipe,       \* what the client process wrote to its pipes when it exited
    orch,       \* the orchestrator (run_benchmark or run): its position, the
                \* task it is at, its results, and a log of what it did per task
    mon,        \* per task: the GPUMonitor made for it and its sampling thread
    gm,         \* a GPUMonitor used on its own: its fields, its sample buffer,
                \* its sampling thread and the caller that starts and stops it
    acct,       \* the energy accounting of an orchestrator run: per-task kwh
                \* and kg_co2 and the totals of the report
    launch,     \* the arguments of a run_code_in_sandbox call and the docker
                \* command line built from them
    fine,       \* a GPUMonitor field by field: the positions of the two
                \* flows, the lock, and the record of reads and writes
    tel,        \* the monitors of the tasks of one run, with their threads
                \* and buffers, and the samples counted for each task
    ext,        \* the candidate extraction of an orchestrator on its own: the
                \* generated text, the signature and the code extracted
    gen,        \* the generation calls of run_benchmark: the awaiting coroutine and
                \* the executor threads running blocking_gen
    agg         \* the aggregation of device readings into samples and of samples
                \* into a summary, for several devices

vars == <<clock, sb, proc, container, pipe, orch, mon, gm, acct, launch, fine, tel, ext, gen, agg>>
sbvars == <<sb, proc, container, pipe>>
\* The parts looked at on their own, untouched by the two programs above.
units == <<gm, acct, launch, fine, tel, ext, gen, agg>>
\* A part that the running program does not use.
NotInUse == [pc |-> "idle"]

NoResult == Result(FALSE, <<>>, "", PyStr("(no result yet)"))
NoPipe == Run(FALSE, <<>>, "")

\* shutil.which("docker"): a path, or None.
WhichResults == {"None", "/usr/bin/docker"}

\* Variant: the runtime check lets an absent CLI through.
docker_available_always(which) == TRUE

\* sandbox_runner.py:37-38
docker_available(which) == which # "None"

\* Variant: a grace longer than the 2 seconds of the source.
Deadline_late(launch_ts, timeout) == launch_ts + timeout + GRACE + 1

\* sandbox_runner.py:138: the deadline of the wait, counted from the launch.
Deadline(launch_ts, timeout) == launch_ts + timeout + GRACE

\* return (passed, stdout, stderr, meta) of run_code_in_sandbox at the clock's time.
Return(r) == [sb EXCEPT !.pc = "returned", !.result = r, !.return_ts = clock]

\* run_code_in_sandbox is called with (code, tests, timeout).
SandboxCall(code, tests, timeout) ==
    [pc |-> "start", code |-> code, tests |-> tests, timeout |-> timeout,
     call_ts |-> clock, launch_ts |-> -1, return_ts |-> -1,
     which_seen |-> "unset", inspected |-> FALSE, built |-> FALSE,
     script |-> script_text(Code(<<>>, StmtOk, <<>>), <<>>), written |-> FALSE,
     result |-> NoResult]

\* sandbox_runner.py:68-71
SbCheckDocker ==
    /\ sb.pc = "start"
    /\ \E which \in WhichResults :
          IF ~docker_available(which)
          THEN sb' = [Return(Result(FALSE, <<>>, "", PyStr("docker_not_available")))
                        EXCEPT !.which_seen = which]
          ELSE sb' = [sb EXCEPT !.pc = "ensure_image", !.which_seen = which]
    /\ UNCHANGED <<clock, proc, container, pipe, orch, mon, units>>

\* sandbox_runner.py:74-75, 44-48: ensure_sandbox_image_built checks the CLI
\* again (RuntimeError, caught at line 76) and starts `docker image inspect`.
SbEnsureImage ==
    /\ sb.pc = "ensure_image"
    /\ \E which \in WhichResults :
          IF ~docker_available(which)
          THEN sb' = Return(Result(FALSE, <<>>, "",
                               PyStr("image_build_failed:e")))
          ELSE sb' = [sb EXCEPT !.pc = "inspecting", !.inspected = TRUE]
    /\ UNCHANGED <<clock, proc, container, pipe, orch, mon, units>>

\* sandbox_runner.py:48-59: the inspect ends; the image is there, or it is
\* missing and the Dockerfile is missing (RuntimeError), or the build starts.
SbInspectDone ==
    /\ sb.pc = "inspecting"
    /\ \E present \in BOOLEAN, dockerfile \in BOOLEAN :
          IF present THEN sb' = [sb EXCEPT !.pc = "harness"]
          ELSE IF ~dockerfile
          THEN sb' = Return(Result(FALSE, <<>>, "",
                               PyStr("image_build_failed:e")))
          ELSE sb' = [sb EXCEPT !.pc = "building"]
    /\ UNCHANGED <<clock, proc, container, pipe, orch, mon, units>>

\* sandbox_runner.py:59-60, 76-77: `docker build` ends (check=True raises
\* CalledProcessError on failure, caught at line 76).
SbBuildDone ==
    /\ sb.pc = "building"
    /\ \E ok \in BOOLEAN :
          IF ok THEN sb' = [sb EXCEPT !.pc = "harness", !.built = TRUE]
          ELSE sb' = Return(Result(FALSE, <<>>, "",
                               PyStr("image_build_failed:e")))
    /\ UNCHANGED <<clock, proc, container, pipe, orch, mon, units>>

\* sandbox_runner.py:79-135: the harness is written and `docker run` is
\* launched with Popen.  Making the temporary directory or writing the
\* script may raise (OSError, UnicodeEncodeError): nothing catches it and
\* it leaves run_code_in_sandbox.  Popen raising gives docker_run_failed.
SbLaunch ==
    /\ sb.pc = "harness"
    /\ \E step \in {"write_raises", "popen_raises", "launched"} :
          LET wrote == [sb EXCEPT !.script = script_text(sb.code, sb.tests),
                                  !.written = TRUE]
          IN  CASE step = "write_raises" ->
                     /\ sb' = [sb EXCEPT !.pc = "raised", !.return_ts = clock]
                     /\ UNCHANGED <<proc, container>>
                [] step = "popen_raises" ->
                     /\ sb' = [wrote EXCEPT !.pc = "returned", !.return_ts = clock,
                                 !.result = Result(FALSE, <<>>, "",
                                                   PyStr("docker_run_failed:e"))]
                     /\ UNCHANGED <<proc, container>>
                [] OTHER ->
                     /\ sb' = [wrote EXCEPT !.pc = "waiting", !.launch_ts = clock]
                     /\ proc' = "running"
                     /\ container' = "running"
    /\ UNCHANGED <<clock, pipe, orch, mon, units>>

\* The script run by `python -u run_test.py` in the container terminates:
\* the container exits, and the client, if it is still there, exits with
\* the container's output on its pipes.
ContainerExit ==
    /\ container = "running"
    /\ PythonRun(sb.script).term
    /\ container' = "exited"
    /\ IF proc = "running"
       THEN /\ proc' = "exited"
            /\ pipe' = PythonRun(sb.script)
       ELSE UNCHANGED <<proc, pipe>>
    /\ UNCHANGED <<clock, sb, orch, mon, units>>

\* sandbox_runner.py:138, 142-156: communicate returns the output of the
\* finished client; the trailing non-empty line is parsed.
SbCommunicate ==
    /\ sb.pc = "waiting"
    /\ proc = "exited"
    /\ sb' = Return(ParseOutput(pipe.stdout, pipe.stderr))
    /\ UNCHANGED <<clock, proc, container, pipe, orch, mon, units>>

\* sandbox_runner.py:139-141: the deadline passes with the client still
\* running: proc.kill() (SIGKILL to the docker client; the container is the
\* daemon's and is not signalled), and the timeout result.
SbTimeout ==
    /\ sb.pc = "waiting"
    /\ proc = "running"
    /\ clock >= Deadline(sb.launch_ts, sb.timeout)
    /\ proc' = "killed"
    /\ sb' = Return(Result(FALSE, <<>>, "", PyStr("timeout")))
    /\ UNCHANGED <<clock, container, pipe, orch, mon, units>>

\* Time passes while run_code_in_sandbox is blocked: in `docker image
\* inspect`, in `docker build`, or in communicate before its deadline.
SbBlocked ==
    \/ sb.pc \in {"inspecting", "building"}
    \/ sb.pc = "waiting" /\ proc = "running"
                         /\ clock < Deadline(sb.launch_ts, sb.timeout)

SbTick ==
    /\ SbBlocked
    /\ clock < MaxClock
    /\ clock' = clock + 1
    /\ UNCHANGED <<sb, proc, container, pipe, orch, mon, units>>

\* =========================================================== GPUMonitor
NoTs == -1
TaskIds == 1..(IF MaxTasks > CI_NUM_TASKS THEN MaxTasks ELSE CI_NUM_TASKS)

\* gpu_monitor.py:44-53: the fields of a GPUMonitor.  thread is the position
\* of the sampling thread in _run: "none" no thread yet, "start" before line
\* 134, "loop" at the test of line 135, "query" in _sample_once, "sleep" in
\* time.sleep, "done" after line 147.  samples counts the buffered samples.
\* The orchestrator holds the monitor of its current task only.  When it
\* leaves a task whose thread has not finished, nobody reads that monitor
\* any more: its fields are forgotten and its thread is "detached", which
\* stands for any position in _run with the flag cleared.
NewMonitor ==
    [running |-> FALSE, thread |-> "none", start_ts |-> NoTs, end_ts |-> NoTs,
     samples |-> 0]

Forgotten(m) ==
    [NewMonitor EXCEPT !.thread = IF m.thread = "done" THEN "done" ELSE "detached"]

\* gpu_monitor.py:149-154
monitor_start(m) == [m EXCEPT !.running = TRUE, !.thread = "start"]

\* Python's `ts or time.time()` for a timestamp that may be None.
TsOr(ts, now) == IF ts = NoTs THEN now ELSE ts

\* gpu_monitor.py:160
duration_s(m, now) == TsOr(m.end_ts, now) - TsOr(m.start_ts, now)

\* gpu_monitor.py:134
ThreadBegin(k) ==
    /\ orch.pc \notin {"idle", "aborted", "done"}
    /\ mon[k].thread = "start"
    /\ mon' = [mon EXCEPT ![k].thread = "loop", ![k].start_ts = clock]
    /\ UNCHANGED <<clock, orch, sbvars, units>>

\* gpu_monitor.py:135, 147: the loop test; on a cleared flag the loop ends
\* and the end timestamp is taken.
ThreadLoopTest(k) ==
    /\ orch.pc \notin {"idle", "aborted", "done"}
    /\ mon[k].thread = "loop"
    /\ IF mon[k].running
       THEN mon' = [mon EXCEPT ![k].thread = "query"]
       ELSE mon' = [mon EXCEPT ![k].thread = "done", ![k].end_ts = clock]
    /\ UNCHANGED <<clock, orch, sbvars, units>>

\* gpu_monitor.py:136-145: _sample_once returns and the sample is appended.
ThreadSample(k) ==
    /\ orch.pc \notin {"idle", "aborted", "done"}
    /\ mon[k].thread = "query"
    /\ mon' = [mon EXCEPT ![k].thread = "sleep",
                          ![k].samples = IF @ < MaxSamples THEN @ + 1 ELSE @]
    /\ UNCHANGED <<clock, orch, sbvars, units>>

\* gpu_monitor.py:135-147: a thread left behind by an earlier task sees the
\* cleared flag at its next loop test and ends.
ThreadDetachedExit(k) ==
    /\ orch.pc \notin {"idle", "aborted", "done"}
    /\ mon[k].thread = "detached"
    /\ mon' = [mon EXCEPT ![k].thread = "done"]
    /\ UNCHANGED <<clock, orch, sbvars, units>>

\* gpu_monitor.py:146: the sleep ends.
ThreadWake(k) ==
    /\ orch.pc \notin {"idle", "aborted", "done"}
    /\ mon[k].thread = "sleep"
    /\ mon' = [mon EXCEPT ![k].thread = "loop"]
    /\ UNCHANGED <<clock, orch, sbvars, units>>

\* ======================================================== orchestrators
\* What run_code_in_sandbox can return, as (passed, meta), over the candidate
\* codes and assertion behaviours of the model.
SandboxReturnValues(code, tests) ==
    {Result(FALSE, <<>>, "", PyStr(m)) :
        m \in {"docker_not_available", "image_build_failed:e",
               "docker_run_failed:e", "timeout"}}
    \cup (LET run == PythonRun(script_text(code, tests))
          IN  IF run.term THEN {ParseOutput(run.stdout, run.stderr)} ELSE {})

\* The orchestrators' tasks (MINI_HUMANEVAL) carry two bare assertions each;
\* the candidate tried here defines its function and prints nothing, and the
\* assertions hold or the second one fails.
OrchCodes == {Code(<<>>, StmtOk, <<>>)}
OrchTestLists == {<<StmtOk, StmtOk>>, <<StmtOk, StmtAssertBare>>}

ExecOutcome(passed, meta) == [passed |-> passed, meta |-> meta]
OrchSandboxReturns ==
    {ExecOutcome(r.passed, r.meta) :
        r \in UNION {SandboxReturnValues(c, t) : c \in OrchCodes, t \in OrchTestLists}}

\* ci_benchmark_http.py:65-73 on the response shapes {"choices":[{"text": t}]}
\* (no "message"), {"generated_text": t} and any other response.
CiResponses ==
    {[shape |-> sh, text |-> t] : sh \in {"choices_text", "generated_text"},
                                   t \in {"", "code"}}
    \cup {[shape |-> "other", text |-> ""]}
extract_generated_text(response) ==
    CASE response.shape = "choices_text" ->
           \* c.get("text") or (c.get("message") and ...): the empty text is
           \* falsy and c.get("message") is None.
           IF response.text # "" THEN PyStr(response.text) ELSE PyNone
      [] response.shape = "generated_text" -> PyStr(response.text)
      [] OTHER -> PyStr("str(response)")

\* The texts generation can hand to the extraction step.
\* run_vllm_test_local.py:83-90, 176 ; ci_benchmark_http.py:124
GeneratedTexts(flavour) ==
    IF flavour = "vllm" THEN {PyStr(""), PyStr("code")}
    ELSE {extract_generated_text(r) : r \in CiResponses}

\* gen_text.find(signature) raises AttributeError on a value that is no str.
FindRaises(text) == text.t # "str"

\* What the orchestrator did for its current task, and when.
NoLog ==
    [started |-> FALSE, gen_start_ts |-> NoTs, executed |-> FALSE,
     exec_done_ts |-> NoTs, stopped |-> FALSE, summarized |-> FALSE,
     duration_s |-> 0]

TaskResult(id, kind, passed, error) ==
    [task_id |-> id, kind |-> kind, passed |-> passed, error |-> error]

\* Variant: the generation-failure path goes on without recording the task.
results_append_executed_only(results, tr) ==
    IF tr.kind = "generation_error" THEN results ELSE Append(results, tr)

\* run_vllm_test_local.py:172, 223 ; ci_benchmark_http.py:122, 135
results_append(results, tr) == Append(results, tr)

\* What the start-up call of ensure_sandbox_image_built found.
NoStartup == [which |-> "unset", outcome |-> ""]

IdleOrch ==
    [flavour |-> "none", ntasks |-> 0, pc |-> "idle", i |-> 0, results |-> <<>>,
     startup |-> NoStartup,
     path |-> "", exec |-> ExecOutcome(FALSE, PyNone), join_ts |-> NoTs,
     abort_cause |-> "", reported |-> FALSE, report |-> <<>>,
     log |-> NoLog]

IdleSandbox == [SandboxCall(Code(<<>>, StmtOk, <<>>), <<>>, 0) EXCEPT !.pc = "idle"]

InitOrch ==
    /\ clock = 0
    /\ agg = NotInUse
    /\ gen = NotInUse
    /\ ext = NotInUse
    /\ \E fl \in {"vllm", "ci"} :
         \E n \in (IF fl = "vllm" THEN 1..MaxTasks ELSE {CI_NUM_TASKS}) :
            orch = [IdleOrch EXCEPT !.flavour = fl, !.ntasks = n, !.pc = "init", !.i = 1]
    /\ mon = [k \in TaskIds |-> NewMonitor]
    /\ sb = IdleSandbox
    /\ proc = "none"
    /\ container = "none"
    /\ pipe = NoPipe
    /\ gm = NotInUse /\ acct = NotInUse /\ launch = NotInUse /\ fine = NotInUse /\ tel = NotInUse

Abort(o, cause) == [o EXCEPT !.pc = "aborted", !.abort_cause = cause]

\* Variant: a missing CLI is reported by the return value, not by raising.
ensure_sandbox_image_built_lenient(which, present, dockerfile, build_ok) ==
    IF ~docker_available(which) THEN "False"
    ELSE IF present THEN "True"
    ELSE IF ~dockerfile THEN "RuntimeError: Sandbox Dockerfile not found"
    ELSE IF ~build_ok THEN "CalledProcessError"
    ELSE "True"

\* sandbox_runner.py:40-60 with build_if_missing=True: the value returned, or
\* the exception raised.  which is what shutil.which("docker") gives, present
\* whether `docker image inspect` finds the image, dockerfile whether the
\* Dockerfile exists, build_ok whether `docker build` succeeds.
ensure_sandbox_image_built(which, present, dockerfile, build_ok) ==
    IF ~docker_available(which) THEN "RuntimeError: docker CLI not found in PATH"
    ELSE IF present THEN "True"
    ELSE IF ~dockerfile THEN "RuntimeError: Sandbox Dockerfile not found"
    ELSE IF ~build_ok THEN "CalledProcessError"
    ELSE "True"

\* run_vllm_test_local.py:151 ; ci_benchmark_http.py:110
\* The return value is not looked at; ensure_sandbox_image_built raising
\* leaves the orchestrator.
OrchEnsure ==
    /\ orch.pc = "init"
    /\ \E which \in WhichResults, present \in BOOLEAN, dockerfile \in BOOLEAN,
          build_ok \in BOOLEAN :
          LET r == ensure_sandbox_image_built(which, present, dockerfile, build_ok)
              seen == [orch EXCEPT !.startup = [which |-> which, outcome |-> r]]
          IN  orch' = IF r \in {"True", "False"} THEN [seen EXCEPT !.pc = "loop"]
                      ELSE Abort(seen, "ensure_sandbox_image_built")
    /\ UNCHANGED <<clock, mon, sbvars, units>>

\* run_vllm_test_local.py:156-163 ; ci_benchmark_http.py:114-119
\* A new GPUMonitor is made and started, then the generation call begins.
OrchStartTask ==
    /\ orch.pc = "loop"
    /\ orch.i <= orch.ntasks
    /\ mon' = [mon EXCEPT ![orch.i] = monitor_start(NewMonitor)]
    /\ orch' = [orch EXCEPT !.pc = "gen",
                            !.log = [NoLog EXCEPT !.started = TRUE,
                                                  !.gen_start_ts = clock],
                            !.exec = ExecOutcome(FALSE, PyNone),
                            !.path = "", !.join_ts = NoTs]
    /\ UNCHANGED <<clock, sbvars, units>>

\* gpu_monitor.py:157-159: stop_and_summary clears the flag and joins.
BeginStop(o, path) ==
    [o EXCEPT !.pc = "join", !.path = path, !.join_ts = clock,
              !.log.stopped = TRUE]

\* run_vllm_test_local.py:163-179 ; ci_benchmark_http.py:119-126
\* The generation call ends.  On failure the handler calls stop_and_summary;
\* on success the candidate is extracted and run_code_in_sandbox is called.
OrchGenDone ==
    /\ orch.pc = "gen"
    /\ \/ /\ orch' = BeginStop(orch, "gen_error")
          /\ mon' = [mon EXCEPT ![orch.i].running = FALSE]
       \/ \E text \in GeneratedTexts(orch.flavour) :
             /\ orch' = IF FindRaises(text) THEN Abort(orch, "AttributeError in extraction")
                        ELSE [orch EXCEPT !.pc = "sandbox"]
             /\ UNCHANGED mon
    /\ UNCHANGED <<clock, sbvars, units>>

\* run_vllm_test_local.py:182-195 ; ci_benchmark_http.py:127-128
\* run_code_in_sandbox returns or raises; run_benchmark catches the
\* exception, run does not.  Then stop_and_summary is called.
OrchSandboxDone ==
    /\ orch.pc = "sandbox"
    /\ \E raises \in BOOLEAN, r \in OrchSandboxReturns :
          IF raises /\ orch.flavour = "ci"
          THEN /\ orch' = Abort(orch, "exception in run_code_in_sandbox")
               /\ UNCHANGED mon
          ELSE /\ orch' = [BeginStop(orch, "exec") EXCEPT
                              !.exec = IF raises
                                       THEN ExecOutcome(FALSE, PyStr("sandbox_error:e"))
                                       ELSE r,
                              !.log.executed = TRUE,
                              !.log.exec_done_ts = clock]
               /\ mon' = [mon EXCEPT ![orch.i].running = FALSE]
    /\ UNCHANGED <<clock, sbvars, units>>

\* gpu_monitor.py:159-187, then run_vllm_test_local.py:166-173, 196-223 ;
\* ci_benchmark_http.py:122-123, 129-146.  The join ends (thread finished,
\* or 5 s passed), the summary is computed, the task result is recorded.
\* The task is over: the clock starts again at 0 for the next one.
\* In run, line 132 reads os.getenv and the module never imports os.
OrchJoinDone ==
    /\ orch.pc = "join"
    /\ mon[orch.i].thread = "done" \/ clock >= orch.join_ts + JOIN_TIMEOUT
    /\ LET d == duration_s(mon[orch.i], clock)
           logged == [orch EXCEPT !.log.summarized = TRUE, !.log.duration_s = d]
           tr == IF orch.path = "gen_error"
                 THEN TaskResult(orch.i, "generation_error", FALSE,
                                 PyStr("generation_error:e"))
                 ELSE TaskResult(orch.i, "executed", orch.exec.passed,
                                 IF orch.exec.passed THEN PyNone ELSE orch.exec.meta)
       IN  IF orch.flavour = "ci" /\ orch.path = "exec"
           THEN /\ orch' = Abort(logged, "NameError: name 'os' is not defined")
                /\ UNCHANGED mon
           ELSE /\ orch' = [logged EXCEPT !.results = results_append(@, tr),
                                          !.i = @ + 1, !.pc = "loop"]
                /\ mon' = [mon EXCEPT ![orch.i] = Forgotten(@)]
    /\ clock' = 0
    /\ UNCHANGED <<sbvars, units>>

\* run_vllm_test_local.py:225-246 ; ci_benchmark_http.py:147-158
\* After the last task the report is built and written.  In run, line 152
\* reads os.getenv.
OrchReport ==
    /\ orch.pc = "loop"
    /\ orch.i > orch.ntasks
    /\ orch' = IF orch.flavour = "ci"
               THEN Abort(orch, "NameError: name 'os' is not defined")
               ELSE [orch EXCEPT !.pc = "done", !.reported = TRUE,
                                 !.report = orch.results, !.log = NoLog]
    /\ UNCHANGED <<clock, mon, sbvars, units>>

\* Time passes while the orchestrator is blocked: in the generation call,
\* in run_code_in_sandbox, or in the join before its timeout.
OrchBlocked ==
    \/ orch.pc \in {"gen", "sandbox"}
    \/ /\ orch.pc = "join"
       /\ mon[orch.i].thread # "done"
       /\ clock < orch.join_ts + JOIN_TIMEOUT

OrchTick ==
    /\ OrchBlocked
    /\ clock < MaxOrchClock
    /\ clock' = clock + 1
    /\ UNCHANGED <<orch, mon, sbvars, units>>

NextOrch ==
    \/ OrchEnsure
    \/ OrchStartTask
    \/ OrchGenDone
    \/ OrchSandboxDone
    \/ OrchJoinDone
    \/ OrchReport
    \/ OrchTick
    \/ \E k \in TaskIds : ThreadBegin(k)
    \/ \E k \in TaskIds : ThreadLoopTest(k)
    \/ \E k \in TaskIds : ThreadSample(k)
    \/ \E k \in TaskIds : ThreadWake(k)
    \/ \E k \in TaskIds : ThreadDetachedExit(k)

SpecOrch == InitOrch /\ [][NextOrch]_vars

\* ======================================================= specifications
\* One call of run_code_in_sandbox, for every code, assertion list and timeout.
InitSandbox ==
    /\ clock = 0
    /\ agg = NotInUse
    /\ gen = NotInUse
    /\ ext = NotInUse
    /\ \E code \in Codes, tests \in TestLists, timeout \in Timeouts :
          sb = SandboxCall(code, tests, timeout)
    /\ proc = "none"
    /\ container = "none"
    /\ pipe = NoPipe
    /\ orch = IdleOrch
    /\ mon = [k \in TaskIds |-> NewMonitor]
    /\ gm = NotInUse /\ acct = NotInUse /\ launch = NotInUse /\ fine = NotInUse /\ tel = NotInUse

NextSandbox ==
    \/ SbCheckDocker
    \/ SbEnsureImage
    \/ SbInspectDone
    \/ SbBuildDone
    \/ SbLaunch
    \/ ContainerExit
    \/ SbCommunicate
    \/ SbTimeout
    \/ SbTick

SpecSandbox == InitSandbox /\ [][NextSandbox]_vars

\* ================================================== GPUMonitor on its own
\* One GPUMonitor, the caller that constructs it, starts it, lets a workload
\* run and stops it, and the caller's energy computation on the summary.

\* Latest time, after start(), at which the caller calls stop_and_summary.
MaxWork == 1
\* Samples the thread takes at most.
MaxArrivals == 3
\* The capacity of the sample buffer (10000 at gpu_monitor.py:143-145),
\* scaled down.
MaxBuffer == 2

\* The readings of a device that is present and answers, in W and in %.
PowerW == 2
UtilPct == 1

\* Fractions: Python's float division kept exact.
Rat(n, d) == [num |-> n, den |-> d]
RatEq(a, b) == a.num * b.den = b.num * a.den
RECURSIVE GCD(_, _)
GCD(a, b) == IF b = 0 THEN a ELSE GCD(b, a % b)
Abs(x) == IF x < 0 THEN -x ELSE x
\* The same fraction in lowest terms.
Lowest(r) ==
    LET g == GCD(Abs(r.num), Abs(r.den))
    IN  IF g = 0 THEN r ELSE Rat(r.num \div g, r.den \div g)
RatAdd(a, b) == Lowest(Rat(a.num * b.den + b.num * a.den, a.den * b.den))
RatNonNeg(a) == a.num * a.den >= 0
Zero == Rat(0, 1)

RECURSIVE SeqSum(_)
SeqSum(xs) == IF xs = <<>> THEN 0 ELSE Head(xs) + SeqSum(Tail(xs))
SeqMax(xs) == CHOOSE x \in {xs[i] : i \in 1..Len(xs)} :
                 \A i \in 1..Len(xs) : xs[i] <= x

\* What one sampling tick finds: a device that answers, a device whose power
\* reading alone raises (lines 78-81), no device at all (n = 0, or no output
\* line), or a query that raises (lines 95, 125).
QueryOutcomes == {"reading", "power_unreadable", "no_device", "query_fails"}

Sample(seq, outcome, total_power, avg_util, max_power, max_util) ==
    [seq |-> seq, outcome |-> outcome,
     total_power_w |-> total_power, avg_util_pct |-> avg_util,
     max_power_w |-> max_power, max_util_pct |-> max_util]

\* Variant: a failed query leaves the previous reading in the sample.
sample_once_stale(seq, outcome) ==
    IF outcome = "no_device" THEN Sample(seq, outcome, 0, 0, 0, 0)
    ELSE Sample(seq, outcome, PowerW, UtilPct, PowerW, UtilPct)

\* gpu_monitor.py:65-131 for one device.  seq is the arrival number of the
\* sample (its "ts" orders the samples); outcome is kept with the sample to
\* tell what the tick found.
sample_once(seq, outcome) ==
    CASE outcome = "reading" -> Sample(seq, outcome, PowerW, UtilPct, PowerW, UtilPct)
      [] outcome = "power_unreadable" -> Sample(seq, outcome, 0, UtilPct, 0, UtilPct)
      [] OTHER -> Sample(seq, outcome, 0, 0, 0, 0)

\* The last n elements of xs: xs[-n:] for n > 0.
LastN(xs, n) == IF Len(xs) <= n THEN xs ELSE SubSeq(xs, Len(xs) - n + 1, Len(xs))

\* gpu_monitor.py:137-145: the append of _run, under the lock.
buffer_append(samples, s, record_samples) ==
    IF record_samples THEN Append(samples, s)
    ELSE LET appended == Append(samples, s)
         IN  IF Len(appended) > MaxBuffer THEN LastN(appended, MaxBuffer)
             ELSE appended

\* Variant: the empty buffer is not treated apart, the averages divide by n.
summary_unguarded(samples, duration, interval) ==
    LET n == Len(samples)
        power == [i \in 1..n |-> samples[i].total_power_w]
        util == [i \in 1..n |-> samples[i].avg_util_pct]
    IN  [samples |-> n, duration_s |-> duration,
         avg_power_w |-> Rat(SeqSum(power), n),
         max_power_w |-> IF n = 0 THEN 0 ELSE SeqMax([i \in 1..n |-> samples[i].max_power_w]),
         avg_util_pct |-> Rat(SeqSum(util), n),
         max_util_pct |-> IF n = 0 THEN 0 ELSE SeqMax([i \in 1..n |-> samples[i].max_util_pct]),
         sample_interval_s |-> interval]

\* gpu_monitor.py:163-187: the summary of the copied samples.
summary(samples, duration, interval) ==
    LET n == Len(samples)
        power == [i \in 1..n |-> samples[i].total_power_w]
        util == [i \in 1..n |-> samples[i].avg_util_pct]
    IN  IF n = 0
        THEN [samples |-> 0, duration_s |-> duration,
              avg_power_w |-> Zero, max_power_w |-> 0,
              avg_util_pct |-> Zero, max_util_pct |-> 0,
              sample_interval_s |-> interval]
        ELSE [samples |-> n, duration_s |-> duration,
              avg_power_w |-> Rat(SeqSum(power), n),
              max_power_w |-> SeqMax([i \in 1..n |-> samples[i].max_power_w]),
              avg_util_pct |-> Rat(SeqSum(util), n),
              max_util_pct |-> SeqMax([i \in 1..n |-> samples[i].max_util_pct]),
              sample_interval_s |-> interval]

NoSummary == summary(<<>>, 0, 0)

\* Variant: the seconds are converted to hours.
kwh_of_hours(s) == Rat(s.avg_power_w.num * s.duration_s, s.avg_power_w.den * 3600)

\* run_vllm_test_local.py:196-198 (167-169 on the generation-failure path):
\* kwh = (avg_power * duration) / 1000.0
kwh_of(s) == Rat(s.avg_power_w.num * s.duration_s, s.avg_power_w.den * 1000)
\* run_vllm_test_local.py:199 (170): kg_co2 = kwh * ENERGY_MIX
kg_co2_of(kwh, energy_mix) == Rat(kwh.num * energy_mix, kwh.den)

\* ENERGY_MIX = float(os.getenv("ENERGY_MIX_KG_CO2_KWH", "0.4")): any float
\* the environment gives; whole numbers stand for them here.
EnergyMixes == {-1, 0, 1}
\* sample_interval = float(sample_interval)
SampleIntervals == {0, 1}

\* gpu_monitor.py:44-53.  pc is the caller's position: "new" constructed,
\* "working" started and the workload running, "join" in the join of
\* stop_and_summary, "copy" before the samples are copied, "summarized"
\* stop_and_summary has returned, "accounted" kwh and kg_co2 are computed.
GPUMonitor(sample_interval, record_samples, energy_mix) ==
    [pc |-> "new", sample_interval |-> sample_interval,
     record_samples |-> record_samples, energy_mix |-> energy_mix,
     running |-> FALSE, thread |-> "none", start_ts |-> NoTs, end_ts |-> NoTs,
     samples |-> <<>>, arrivals |-> 0,
     stop_ts |-> NoTs, return_ts |-> NoTs, duration |-> 0, copied |-> <<>>,
     summary |-> NoSummary, kwh |-> Zero, kg_co2 |-> Zero]

InitMonitor ==
    /\ clock = 0
    /\ agg = NotInUse
    /\ gen = NotInUse
    /\ ext = NotInUse
    /\ \E interval \in SampleIntervals, record_samples \in BOOLEAN,
          energy_mix \in EnergyMixes :
          gm = GPUMonitor(interval, record_samples, energy_mix)
    /\ orch = IdleOrch
    /\ mon = [k \in TaskIds |-> NewMonitor]
    /\ sb = IdleSandbox
    /\ proc = "none"
    /\ container = "none"
    /\ pipe = NoPipe
    /\ acct = NotInUse /\ launch = NotInUse /\ fine = NotInUse /\ tel = NotInUse

others == <<sb, proc, container, pipe, orch, mon, acct, launch, fine, tel, ext, gen, agg>>

\* gpu_monitor.py:149-154
GmStart ==
    /\ gm.pc = "new"
    /\ gm' = [gm EXCEPT !.pc = "working", !.running = TRUE, !.thread = "start"]
    /\ UNCHANGED <<clock, others>>

\* gpu_monitor.py:134
GmThreadBegin ==
    /\ gm.thread = "start"
    /\ gm' = [gm EXCEPT !.thread = "loop", !.start_ts = clock]
    /\ UNCHANGED <<clock, others>>

\* gpu_monitor.py:135, 147
GmThreadLoopTest ==
    /\ gm.thread = "loop"
    /\ gm' = IF gm.running THEN [gm EXCEPT !.thread = "query"]
             ELSE [gm EXCEPT !.thread = "done", !.end_ts = clock]
    /\ UNCHANGED <<clock, others>>

\* gpu_monitor.py:136-145: _sample_once returns and the sample is appended.
GmThreadSample ==
    /\ gm.thread = "query"
    /\ gm.arrivals < MaxArrivals
    /\ \E outcome \in QueryOutcomes :
          gm' = [gm EXCEPT !.thread = "sleep",
                           !.arrivals = @ + 1,
                           !.samples = buffer_append(@, sample_once(gm.arrivals + 1, outcome),
                                                     gm.record_samples)]
    /\ UNCHANGED <<clock, others>>

\* gpu_monitor.py:146
GmThreadWake ==
    /\ gm.thread = "sleep"
    /\ gm' = [gm EXCEPT !.thread = "loop"]
    /\ UNCHANGED <<clock, others>>

\* gpu_monitor.py:157-159: the flag is cleared and the join begins.
GmStop ==
    /\ gm.pc = "working"
    /\ gm' = [gm EXCEPT !.pc = "join", !.running = FALSE, !.stop_ts = clock]
    /\ UNCHANGED <<clock, others>>

\* Variant: join() without a timeout.
JoinReturns_unbounded(thread, stop_ts, now) == thread = "done"

\* gpu_monitor.py:159: join(timeout=5) returns when the thread has ended or
\* 5 s have passed.
JoinReturns(thread, stop_ts, now) == thread = "done" \/ now >= stop_ts + JOIN_TIMEOUT

\* gpu_monitor.py:160: the two timestamps, each replaced by a fresh
\* time.time() when it is None; the right-hand one is read second.
duration_two_reads(m, now, later) == TsOr(m.end_ts, now) - TsOr(m.start_ts, later)

\* gpu_monitor.py:159-160
GmJoinDone ==
    /\ gm.pc = "join"
    /\ JoinReturns(gm.thread, gm.stop_ts, clock)
    /\ \E later \in {clock, clock + 1} :
          gm' = [gm EXCEPT !.pc = "copy",
                           !.duration = duration_two_reads(gm, clock, later)]
    /\ UNCHANGED <<clock, others>>

\* gpu_monitor.py:161-187: the samples are copied under the lock and the
\* summary is returned.
GmSummary ==
    /\ gm.pc = "copy"
    /\ gm' = [gm EXCEPT !.pc = "summarized", !.copied = gm.samples,
                        !.return_ts = clock,
                        !.summary = summary(gm.samples, gm.duration, gm.sample_interval)]
    /\ UNCHANGED <<clock, others>>

\* run_vllm_test_local.py:196-199
GmAccount ==
    /\ gm.pc = "summarized"
    /\ gm' = [gm EXCEPT !.pc = "accounted",
                        !.kwh = kwh_of(gm.summary),
                        !.kg_co2 = kg_co2_of(kwh_of(gm.summary), gm.energy_mix)]
    /\ UNCHANGED <<clock, others>>

\* Time passes while the workload runs and while the join waits.
GmBlocked ==
    \/ gm.pc = "working" /\ clock < MaxWork
    \/ gm.pc = "join" /\ ~JoinReturns(gm.thread, gm.stop_ts, clock)

GmTick ==
    /\ GmBlocked
    /\ clock < MaxWork + JOIN_TIMEOUT + 1
    /\ clock' = clock + 1
    /\ UNCHANGED <<gm, others>>

NextMonitor ==
    \/ GmStart
    \/ GmThreadBegin
    \/ GmThreadLoopTest
    \/ GmThreadSample
    \/ GmThreadWake
    \/ GmStop
    \/ GmJoinDone
    \/ GmSummary
    \/ GmAccount
    \/ GmTick

SpecMonitor == InitMonitor /\ [][NextMonitor]_vars

\* ==================================================== energy accounting
\* The task loop and the report of the two orchestrators as far as kwh and
\* kg_co2 go: each task ends with the summary of its monitor, from which its
\* energy is computed and recorded; the report adds the energies up.

\* Longest duration_s of a task's summary.
MaxDuration == 2

\* The sample buffers behind the summaries tried: none, one reading, a zero
\* sample and a reading.
TaskBuffers ==
    {<<>>, <<sample_once(1, "reading")>>,
     <<sample_once(1, "no_device"), sample_once(2, "reading")>>}
TaskSummaries == {summary(b, d, 1) : b \in TaskBuffers, d \in 0..MaxDuration}

\* How a task ended: the generation call failed, or the candidate was
\* executed and passed, or its execution timed out.
TaskEndings == {"generation_error", "passed", "timeout"}

\* run_vllm_test_local.py:171, 201-222 ; ci_benchmark_http.py:122, 135-146
\* The entry appended for a task, with the monitor's summary it carries.
\* has_kwh: the entry carries a kwh value (the entry of line 122 of
\* ci_benchmark_http.py has no such key).
Entry(id, ending, monitor, has_kwh, kwh, kg_co2) ==
    [task_id |-> id, ending |-> ending, passed |-> (ending = "passed"),
     monitor |-> monitor, has_kwh |-> has_kwh, kwh |-> kwh, kg_co2 |-> kg_co2]

RECURSIVE RatSum(_)
RatSum(xs) == IF xs = <<>> THEN Zero ELSE RatAdd(Head(xs), RatSum(Tail(xs)))

\* r.metrics.get("kwh", 0.0)
metrics_get_kwh(r) == IF r.has_kwh THEN r.kwh ELSE Zero

\* Variant: only the tasks that were executed count.
report_total_kwh_executed(results) ==
    RatSum([k \in 1..Len(results) |->
              IF results[k].ending = "generation_error" THEN Zero
              ELSE metrics_get_kwh(results[k])])

\* run_vllm_test_local.py:226
report_total_kwh(results) ==
    RatSum([k \in 1..Len(results) |-> metrics_get_kwh(results[k])])

\* sum(1 for r in results if <condition>)
RECURSIVE CountIf(_, _)
CountIf(flags, k) ==
    IF k = 0 THEN 0 ELSE CountIf(flags, k - 1) + (IF flags[k] THEN 1 ELSE 0)

\* run_vllm_test_local.py:235
num_tasks(results) == Len(results)

\* run_vllm_test_local.py:236
num_passed(results) ==
    CountIf([k \in 1..Len(results) |-> results[k].passed], Len(results))

\* Variant: a task whose generation failed is not counted as failed.
num_failed_executed(results) ==
    CountIf([k \in 1..Len(results) |->
               ~results[k].passed /\ results[k].ending # "generation_error"],
            Len(results))

\* run_vllm_test_local.py:237
num_failed(results) ==
    CountIf([k \in 1..Len(results) |-> ~results[k].passed], Len(results))

\* run_vllm_test_local.py:234-238
report_summary(results) ==
    [num_tasks |-> num_tasks(results), num_passed |-> num_passed(results),
     num_failed |-> num_failed(results)]

NoReport ==
    [total_kwh |-> Zero, total_kg_co2 |-> Zero, tasks |-> <<>>,
     summary |-> report_summary(<<>>)]

InitEnergy ==
    /\ clock = 0
    /\ agg = NotInUse
    /\ gen = NotInUse
    /\ ext = NotInUse
    /\ \E fl \in {"vllm", "ci"}, energy_mix \in EnergyMixes :
         \E n \in (IF fl = "vllm" THEN 1..MaxTasks ELSE {CI_NUM_TASKS}) :
            acct = [pc |-> "loop", flavour |-> fl, ntasks |-> n, i |-> 1,
                    energy_mix |-> energy_mix, results |-> <<>>,
                    abort_cause |-> "", reported |-> FALSE, report |-> NoReport]
    /\ orch = IdleOrch
    /\ mon = [k \in TaskIds |-> NewMonitor]
    /\ sb = IdleSandbox
    /\ proc = "none"
    /\ container = "none"
    /\ pipe = NoPipe
    /\ gm = NotInUse /\ launch = NotInUse /\ fine = NotInUse /\ tel = NotInUse

notacct == <<clock, sb, proc, container, pipe, orch, mon, gm, launch, fine, tel, ext, gen, agg>>

\* run_vllm_test_local.py:164-173 ; ci_benchmark_http.py:120-123
\* The generation call of task i fails: the monitor is stopped; run_benchmark
\* computes the energy of the monitor's duration and records it with the
\* error, run records the error and the summary only.
AcctGenerationError ==
    /\ acct.pc = "loop"
    /\ acct.i <= acct.ntasks
    /\ \E s \in TaskSummaries :
          LET kwh == kwh_of(s)
              entry == IF acct.flavour = "vllm"
                       THEN Entry(acct.i, "generation_error", s, TRUE, kwh,
                                  kg_co2_of(kwh, acct.energy_mix))
                       ELSE Entry(acct.i, "generation_error", s, FALSE, Zero, Zero)
          IN  acct' = [acct EXCEPT !.results = Append(@, entry), !.i = @ + 1]
    /\ UNCHANGED notacct

\* run_vllm_test_local.py:195-223 ; ci_benchmark_http.py:128-134
\* Task i was executed (it passed, or its execution timed out): the monitor
\* is stopped, the energy computed and recorded.  In run, line 132 reads
\* os.getenv and the module never imports os.
AcctExecuted ==
    /\ acct.pc = "loop"
    /\ acct.i <= acct.ntasks
    /\ \E s \in TaskSummaries, ending \in TaskEndings \ {"generation_error"} :
          LET kwh == kwh_of(s)
              entry == Entry(acct.i, ending, s, TRUE, kwh,
                             kg_co2_of(kwh, acct.energy_mix))
          IN  acct' = IF acct.flavour = "ci"
                      THEN [acct EXCEPT !.pc = "aborted",
                              !.abort_cause = "NameError: name 'os' is not defined"]
                      ELSE [acct EXCEPT !.results = Append(@, entry), !.i = @ + 1]
    /\ UNCHANGED notacct

\* run_vllm_test_local.py:225-246 ; ci_benchmark_http.py:147-152
\* The report.  In run, line 152 reads os.getenv; the report of run has no
\* "summary" key (lines 147-155).
AcctReport ==
    /\ acct.pc = "loop"
    /\ acct.i > acct.ntasks
    /\ acct' = IF acct.flavour = "ci"
               THEN [acct EXCEPT !.pc = "aborted",
                       !.abort_cause = "NameError: name 'os' is not defined"]
               ELSE LET total == report_total_kwh(acct.results)
                    IN  [acct EXCEPT !.pc = "done", !.reported = TRUE,
                           !.report = [total_kwh |-> total,
                                       total_kg_co2 |-> kg_co2_of(total, acct.energy_mix),
                                       tasks |-> acct.results,
                                       summary |-> report_summary(acct.results)]]
    /\ UNCHANGED notacct

NextEnergy ==
    \/ AcctGenerationError
    \/ AcctExecuted
    \/ AcctReport

SpecEnergy == InitEnergy /\ [][NextEnergy]_vars

\* ====================================================== the docker launch
\* The command line that run_code_in_sandbox hands to Popen, for every value
\* of its mem_limit_mb, cpus and image arguments, and the container
\* configuration that `docker run` reads out of that command line.

\* One element of an argument vector.  `dash` says whether the text begins
\* with "-", which is how the docker client tells an option from the image
\* reference; `num` carries the number formatted into --memory= and --cpus=.
Arg(text) == [text |-> text, dash |-> FALSE, num |-> 0]
Flag(text) == [text |-> text, dash |-> TRUE, num |-> 0]
FlagEq(text, n) == [text |-> text, dash |-> TRUE, num |-> n]

\* sandbox_runner.py:33: the default image.
SANDBOX_IMAGE == Arg("ia-libre/sandbox:latest")

\* The values of the image argument: None, another image reference, and a
\* string that begins with a dash.
None == Arg("None")
ImageArgs == {None, Arg("python:3.11-slim"), Flag("--privileged")}
\* The values of mem_limit_mb (megabytes) and of cpus (tenths of a CPU; the
\* default 0.5 is 5).
MemLimitsMb == {0, 6, 128, 256}
CpusTenths == {0, 5, 10}

\* sandbox_runner.py:109.
mem_flag(mem_limit_mb) == FlagEq("--memory", mem_limit_mb)
\* sandbox_runner.py:110.
cpus_flag(cpus) == FlagEq("--cpus", cpus)

\* sandbox_runner.py:113-129.
docker_cmd(mem_limit_mb, cpus, image) ==
    <<Arg("docker"), Arg("run"), Flag("--rm"),
      Flag("--network"), Arg("none"),
      Flag("--cap-drop"), Arg("ALL"),
      Flag("--security-opt"), Arg("no-new-privileges"),
      Flag("--read-only"),
      Flag("--tmpfs"), Arg("/tmp:rw,size=64m"),
      mem_flag(mem_limit_mb),
      cpus_flag(cpus),
      Flag("--pids-limit"), Arg("64"),
      Flag("-v"), Arg("td:/work:rw,delegated"),
      Flag("-w"), Arg("/work"),
      Flag("--user"), Arg("9999:9999"),
      image,
      Arg("python"), Flag("-u"), Arg("run_test.py")>>

\* The options of `docker run` that take their value from the next element.
TakesValue == {"--network", "--cap-drop", "--security-opt", "--tmpfs",
               "--pids-limit", "-v", "-w", "--user"}

\* A container as `docker run` with no option creates it: default network,
\* default capabilities, root user, writable root filesystem, no ceilings
\* (0 is docker's "no limit" for memory, cpus and pids).
DefaultContainer ==
    [rm |-> FALSE, network |-> "bridge", cap_drop |-> {}, privileged |-> FALSE,
     security_opt |-> {}, read_only |-> FALSE, tmpfs |-> {},
     memory_mb |-> 0, cpus |-> 0, pids_limit |-> "0", volumes |-> {},
     workdir |-> "", user |-> "", image |-> "", command |-> <<>>]

\* The effect of one option on the container configuration.
SetOption(cfg, name, text, num) ==
    CASE name = "--rm" -> [cfg EXCEPT !.rm = TRUE]
      [] name = "--network" -> [cfg EXCEPT !.network = text]
      [] name = "--cap-drop" -> [cfg EXCEPT !.cap_drop = @ \cup {text}]
      [] name = "--security-opt" -> [cfg EXCEPT !.security_opt = @ \cup {text}]
      [] name = "--read-only" -> [cfg EXCEPT !.read_only = TRUE]
      [] name = "--tmpfs" -> [cfg EXCEPT !.tmpfs = @ \cup {text}]
      [] name = "--memory" -> [cfg EXCEPT !.memory_mb = num]
      [] name = "--cpus" -> [cfg EXCEPT !.cpus = num]
      [] name = "--pids-limit" -> [cfg EXCEPT !.pids_limit = text]
      [] name = "-v" -> [cfg EXCEPT !.volumes = @ \cup {text}]
      [] name = "-w" -> [cfg EXCEPT !.workdir = text]
      [] name = "--user" -> [cfg EXCEPT !.user = text]
      [] name = "--privileged" -> [cfg EXCEPT !.privileged = TRUE]
      [] OTHER -> cfg

\* `docker run [OPTIONS] IMAGE [COMMAND] [ARG...]`: options are read from
\* the left up to the first element that is not an option and not the value
\* of one; that element is the image and what follows is the command.
RECURSIVE ParseRun(_, _, _)
ParseRun(argv, i, cfg) ==
    IF i > Len(argv) THEN cfg
    ELSE IF ~argv[i].dash
         THEN [cfg EXCEPT !.image = argv[i].text,
                          !.command = SubSeq(argv, i + 1, Len(argv))]
    ELSE IF argv[i].text \in TakesValue /\ i < Len(argv)
         THEN ParseRun(argv, i + 2,
                       SetOption(cfg, argv[i].text, argv[i + 1].text, 0))
    ELSE ParseRun(argv, i + 1,
                  SetOption(cfg, argv[i].text, "", argv[i].num))

\* The container that the command line asks docker for.
ContainerOf(argv) == ParseRun(argv, 3, DefaultContainer)

\* A run_code_in_sandbox call followed up to the Popen.
Launch(mem_limit_mb, cpus, image) ==
    [pc |-> "called", mem_limit_mb |-> mem_limit_mb, cpus |-> cpus,
     image_arg |-> image, image |-> image, ensured |-> Arg(""),
     scratch |-> {}, argv |-> <<>>, meta |-> ""]

InitLaunch ==
    /\ clock = 0
    /\ agg = NotInUse
    /\ gen = NotInUse
    /\ ext = NotInUse
    /\ orch = IdleOrch
    /\ mon = [k \in TaskIds |-> NewMonitor]
    /\ sb = IdleSandbox
    /\ proc = "none"
    /\ container = "none"
    /\ pipe = NoPipe
    /\ gm = NotInUse /\ acct = NotInUse /\ fine = NotInUse /\ tel = NotInUse
    /\ \E m \in MemLimitsMb, c \in CpusTenths, i \in ImageArgs :
          launch = Launch(m, c, i)

notlaunch == <<clock, sb, proc, container, pipe, orch, mon, gm, acct, fine, tel, ext, gen, agg>>

\* sandbox_runner.py:68-77: the default image, then the two early returns.
\* ensure_sandbox_image_built (lines 40-60) takes no image: the image it
\* inspects and builds is SANDBOX_IMAGE.
LaunchPrepare ==
    /\ launch.pc = "called"
    /\ \E r \in {"ok", "docker_not_available", "image_build_failed"} :
          LET img == IF launch.image = None THEN SANDBOX_IMAGE ELSE launch.image
          IN launch' = IF r = "ok"
                       THEN [launch EXCEPT !.pc = "prepared", !.image = img,
                                           !.ensured = SANDBOX_IMAGE]
                       ELSE [launch EXCEPT !.pc = "returned", !.image = img,
                                           !.meta = r]
    /\ UNCHANGED notlaunch

\* sandbox_runner.py:79-105: a fresh temporary directory, and the harness
\* script written into it as run_test.py.  An error of the file system
\* leaves the function as an exception.
LaunchWriteScript ==
    /\ launch.pc = "prepared"
    /\ \E written \in BOOLEAN :
          launch' = IF written
                    THEN [launch EXCEPT !.pc = "scripted",
                                        !.scratch = {"run_test.py"}]
                    ELSE [launch EXCEPT !.pc = "raised", !.meta = "OSError"]
    /\ UNCHANGED notlaunch

\* sandbox_runner.py:107-135: the command line is built and handed to Popen.
LaunchPopen ==
    /\ launch.pc = "scripted"
    /\ \E started \in BOOLEAN :
          LET argv == docker_cmd(launch.mem_limit_mb, launch.cpus, launch.image)
          IN launch' = IF started
                       THEN [launch EXCEPT !.pc = "launched", !.argv = argv]
                       ELSE [launch EXCEPT !.pc = "returned", !.argv = argv,
                                           !.scratch = {},
                                           !.meta = "docker_run_failed"]
    /\ UNCHANGED notlaunch

NextLaunch == LaunchPrepare \/ LaunchWriteScript \/ LaunchPopen

SpecLaunch == InitLaunch /\ [][NextLaunch]_vars

\* ============================== GPUMonitor, field by field, with its lock
\* One GPUMonitor between start() and the return of stop_and_summary, at the
\* grain of single reads and writes of its fields.  The foreground flow runs
\* start and stop_and_summary, the sampling thread runs _run.  Every read
\* and write of a field after construction is put on record with who made
\* it and whether that side held self._lock.

\* A read ("r") or write ("w") of field `var` by `who`.
Access(who, var, kind, locked) ==
    [who |-> who, var |-> var, kind |-> kind, locked |-> locked]
Logged(f, who, var, kind) == f.acc \cup {Access(who, var, kind, f.lock = who)}

\* Variant: a lock that never makes anyone wait.
LockFree_always(lock) == TRUE

\* gpu_monitor.py:137, 161: `with self._lock:` enters when nobody holds it.
LockFree(lock) == lock = "free"

\* gpu_monitor.py:44-53: the object after __init__.  lists are the list
\* objects made so far and samples is the index of the one self._samples
\* refers to (line 145 makes a new list, line 139/142 mutates the current
\* one).  fpc and tpc are the positions of the two flows; late_appends
\* counts the appends made after line 157 cleared the flag.
FineMonitor(record_samples) ==
    [fpc |-> "new", tpc |-> "none", lock |-> "free",
     running |-> FALSE, record_samples |-> record_samples,
     start_ts |-> NoTs, end_ts |-> NoTs,
     lists |-> <<(<<>>)>>, samples |-> 1, arrivals |-> 0, s |-> 0,
     stop_ts |-> NoTs, timed_out |-> FALSE,
     end_read |-> NoTs, duration |-> 0,
     ref |-> 0, at_entry |-> <<>>, copied |-> <<>>,
     late_appends |-> 0,
     acc |-> {}]

InitFine ==
    /\ clock = 0
    /\ agg = NotInUse
    /\ gen = NotInUse
    /\ ext = NotInUse
    /\ \E record_samples \in BOOLEAN : fine = FineMonitor(record_samples)
    /\ orch = IdleOrch
    /\ mon = [k \in TaskIds |-> NewMonitor]
    /\ sb = IdleSandbox
    /\ proc = "none"
    /\ container = "none"
    /\ pipe = NoPipe
    /\ gm = NotInUse /\ acct = NotInUse /\ launch = NotInUse /\ tel = NotInUse

notfine == <<sb, proc, container, pipe, orch, mon, gm, acct, launch, tel, ext, gen, agg>>

\* ---- the foreground flow

\* gpu_monitor.py:152
FgSetRunning ==
    /\ fine.fpc = "new"
    /\ fine' = [fine EXCEPT !.fpc = "mkthread", !.running = TRUE,
                            !.acc = Logged(fine, "foreground", "_running", "w")]
    /\ UNCHANGED <<clock, notfine>>

\* gpu_monitor.py:153-154
FgThreadStart ==
    /\ fine.fpc = "mkthread"
    /\ fine' = [fine EXCEPT !.fpc = "working", !.tpc = "begin",
                            !.acc = Logged(fine, "foreground", "_thread", "w")]
    /\ UNCHANGED <<clock, notfine>>

\* gpu_monitor.py:157
FgClearRunning ==
    /\ fine.fpc = "working"
    /\ fine' = [fine EXCEPT !.fpc = "join", !.running = FALSE, !.stop_ts = clock,
                            !.acc = Logged(fine, "foreground", "_running", "w")]
    /\ UNCHANGED <<clock, notfine>>

\* gpu_monitor.py:158-159: the join returns, the thread ended or not.
FgJoin ==
    /\ fine.fpc = "join"
    /\ JoinReturns(fine.tpc, fine.stop_ts, clock)
    /\ fine' = [fine EXCEPT !.fpc = "read_end", !.timed_out = (fine.tpc # "done"),
                            !.acc = Logged(fine, "foreground", "_thread", "r")]
    /\ UNCHANGED <<clock, notfine>>

\* gpu_monitor.py:160, left operand: self._end_ts or time.time()
FgReadEnd ==
    /\ fine.fpc = "read_end"
    /\ fine' = [fine EXCEPT !.fpc = "read_start", !.end_read = TsOr(fine.end_ts, clock),
                            !.acc = Logged(fine, "foreground", "_end_ts", "r")]
    /\ UNCHANGED <<clock, notfine>>

\* gpu_monitor.py:160, right operand and the difference.
FgReadStart ==
    /\ fine.fpc = "read_start"
    /\ fine' = [fine EXCEPT !.fpc = "enter",
                            !.duration = fine.end_read - TsOr(fine.start_ts, clock),
                            !.acc = Logged(fine, "foreground", "_start_ts", "r")]
    /\ UNCHANGED <<clock, notfine>>

\* gpu_monitor.py:161-162: the lock is entered and self._samples is read;
\* at_entry keeps what the buffer held at that moment.
FgEnter ==
    /\ fine.fpc = "enter"
    /\ LockFree(fine.lock)
    /\ LET in == [fine EXCEPT !.lock = "foreground"]
       IN  fine' = [in EXCEPT !.fpc = "copying", !.ref = fine.samples,
                              !.at_entry = fine.lists[fine.samples],
                              !.copied = <<>>,
                              !.acc = Logged(in, "foreground", "_samples", "r")]
    /\ UNCHANGED <<clock, notfine>>

\* gpu_monitor.py:162: list(...) copies the next element.
FgCopyElement ==
    /\ fine.fpc = "copying"
    /\ Len(fine.copied) < Len(fine.lists[fine.ref])
    /\ fine' = [fine EXCEPT !.copied = Append(@, fine.lists[fine.ref][Len(@) + 1]),
                            !.acc = Logged(fine, "foreground", "_samples", "r")]
    /\ UNCHANGED <<clock, notfine>>

\* gpu_monitor.py:162-163: the copy is complete and the with block is left.
FgLeave ==
    /\ fine.fpc = "copying"
    /\ Len(fine.copied) >= Len(fine.lists[fine.ref])
    /\ fine' = [fine EXCEPT !.fpc = "returned",
                            !.lock = IF @ = "foreground" THEN "free" ELSE @]
    /\ UNCHANGED <<clock, notfine>>

\* ---- the sampling thread

\* gpu_monitor.py:134
ThBegin ==
    /\ fine.tpc = "begin"
    /\ fine' = [fine EXCEPT !.tpc = "test", !.start_ts = clock,
                            !.acc = Logged(fine, "thread", "_start_ts", "w")]
    /\ UNCHANGED <<clock, notfine>>

\* gpu_monitor.py:135
ThTest ==
    /\ fine.tpc = "test"
    /\ fine' = [fine EXCEPT !.tpc = IF fine.running THEN "query" ELSE "end",
                            !.acc = Logged(fine, "thread", "_running", "r")]
    /\ UNCHANGED <<clock, notfine>>

\* gpu_monitor.py:136: s = self._sample_once(); s stands for the sample by
\* its arrival number.
ThQuery ==
    /\ fine.tpc = "query"
    /\ fine.arrivals < MaxArrivals
    /\ fine' = [fine EXCEPT !.tpc = "enter", !.arrivals = @ + 1, !.s = fine.arrivals + 1]
    /\ UNCHANGED <<clock, notfine>>

\* gpu_monitor.py:137
ThEnter ==
    /\ fine.tpc = "enter"
    /\ LockFree(fine.lock)
    /\ fine' = [fine EXCEPT !.tpc = "append", !.lock = "thread"]
    /\ UNCHANGED <<clock, notfine>>

\* gpu_monitor.py:138-142: the append, in either branch.
ThAppend ==
    /\ fine.tpc = "append"
    /\ fine' = [fine EXCEPT !.tpc = "trim",
                            !.lists[fine.samples] = Append(@, fine.s),
                            !.late_appends = IF fine.stop_ts # NoTs THEN @ + 1 ELSE @,
                            !.acc = Logged(fine, "thread", "_samples", "w")]
    /\ UNCHANGED <<clock, notfine>>

\* gpu_monitor.py:143-145: in the else branch a buffer over its capacity is
\* replaced by a new list of its last elements; then the with block is left.
ThTrim ==
    /\ fine.tpc = "trim"
    /\ LET cur == fine.lists[fine.samples]
           out == [fine EXCEPT !.tpc = "sleep",
                               !.lock = IF @ = "thread" THEN "free" ELSE @]
       IN  fine' = IF ~fine.record_samples /\ Len(cur) > MaxBuffer
                   THEN [out EXCEPT !.lists = Append(@, LastN(cur, MaxBuffer)),
                                    !.samples = Len(fine.lists) + 1,
                                    !.acc = Logged(fine, "thread", "_samples", "w")]
                   ELSE out
    /\ UNCHANGED <<clock, notfine>>

\* Variant: the loop is `while True`; after the sleep the next query begins.
ThSleep_no_test ==
    /\ fine.tpc = "sleep"
    /\ fine' = [fine EXCEPT !.tpc = "query"]
    /\ UNCHANGED <<clock, notfine>>

\* gpu_monitor.py:146
ThSleep ==
    /\ fine.tpc = "sleep"
    /\ fine' = [fine EXCEPT !.tpc = "test"]
    /\ UNCHANGED <<clock, notfine>>

\* gpu_monitor.py:147
ThEnd ==
    /\ fine.tpc = "end"
    /\ fine' = [fine EXCEPT !.tpc = "done", !.end_ts = clock,
                            !.acc = Logged(fine, "thread", "_end_ts", "w")]
    /\ UNCHANGED <<clock, notfine>>

\* Time passes while the workload runs and while the join waits.
FineTick ==
    /\ \/ fine.fpc = "working" /\ clock < MaxWork
       \/ fine.fpc = "join" /\ ~JoinReturns(fine.tpc, fine.stop_ts, clock)
    /\ clock < MaxWork + JOIN_TIMEOUT + 1
    /\ clock' = clock + 1
    /\ UNCHANGED <<fine, notfine>>

NextFine ==
    \/ FgSetRunning
    \/ FgThreadStart
    \/ FgClearRunning
    \/ FgJoin
    \/ FgReadEnd
    \/ FgReadStart
    \/ FgEnter
    \/ FgCopyElement
    \/ FgLeave
    \/ ThBegin
    \/ ThTest
    \/ ThQuery
    \/ ThEnter
    \/ ThAppend
    \/ ThTrim
    \/ ThSleep
    \/ ThEnd
    \/ FineTick

SpecFine == InitFine /\ [][NextFine]_vars

\* ================================================ telemetry across tasks
\* The task loop of an orchestrator as far as the monitors go: every task
\* makes its own GPUMonitor, starts it, works, and stops it; the sampling
\* thread of a task may outlive the join of its stop_and_summary and go on
\* sampling while the next task runs.  Every sample is marked with the
\* monitor whose thread took it and with the task that was running then.

\* Variant: one GPUMonitor made before the loop serves every task.
monitor_for_shared(i) == 1

\* run_vllm_test_local.py:160 ; ci_benchmark_http.py:116
\* monitor = GPUMonitor(...): the object task i works with is a new one.
monitor_for(i) == i

\* gpu_monitor.py:44-53, with the buffer kept as a sequence.
NewSampler ==
    [made |-> FALSE, running |-> FALSE, thread |-> "none", samples |-> <<>>,
     arrivals |-> 0]

TelSample(taker, during) == [taker |-> taker, during |-> during]

InitTel ==
    /\ clock = 0
    /\ agg = NotInUse
    /\ gen = NotInUse
    /\ ext = NotInUse
    /\ \E n \in 1..MaxTasks :
          tel = [pc |-> "loop", ntasks |-> n, i |-> 1, stop_ts |-> NoTs,
                 objs |-> [k \in 1..MaxTasks |-> NewSampler],
                 recorded |-> <<>>]
    /\ orch = IdleOrch
    /\ mon = [k \in TaskIds |-> NewMonitor]
    /\ sb = IdleSandbox
    /\ proc = "none"
    /\ container = "none"
    /\ pipe = NoPipe
    /\ gm = NotInUse /\ acct = NotInUse /\ launch = NotInUse /\ fine = NotInUse

nottel == <<sb, proc, container, pipe, orch, mon, gm, acct, launch, fine, ext, gen, agg>>

\* run_vllm_test_local.py:160-161 ; ci_benchmark_http.py:116-117
\* The monitor of task i is made and started.
TelStartTask ==
    /\ tel.pc = "loop"
    /\ tel.i <= tel.ntasks
    /\ LET o == monitor_for(tel.i)
           obj == IF tel.objs[o].made THEN tel.objs[o] ELSE NewSampler
       IN  tel' = [tel EXCEPT !.pc = "work",
                              !.objs[o] = [obj EXCEPT !.made = TRUE, !.running = TRUE,
                                                      !.thread = "start"]]
    /\ UNCHANGED <<clock, nottel>>

\* gpu_monitor.py:134
TelThreadBegin(k) ==
    /\ tel.objs[k].thread = "start"
    /\ tel' = [tel EXCEPT !.objs[k].thread = "loop"]
    /\ UNCHANGED <<clock, nottel>>

\* gpu_monitor.py:135, 147
TelThreadLoopTest(k) ==
    /\ tel.objs[k].thread = "loop"
    /\ tel' = [tel EXCEPT !.objs[k].thread = IF tel.objs[k].running THEN "query"
                                             ELSE "done"]
    /\ UNCHANGED <<clock, nottel>>

\* gpu_monitor.py:136-145: the thread of monitor k appends to self._samples,
\* the buffer of monitor k (record_samples is False in both orchestrators).
TelThreadSample(k) ==
    /\ tel.objs[k].thread = "query"
    /\ tel.objs[k].arrivals < MaxArrivals
    /\ tel' = [tel EXCEPT !.objs[k].thread = "sleep",
                          !.objs[k].arrivals = @ + 1,
                          !.objs[k].samples =
                              buffer_append(@, TelSample(k, tel.i), FALSE)]
    /\ UNCHANGED <<clock, nottel>>

\* gpu_monitor.py:146
TelThreadWake(k) ==
    /\ tel.objs[k].thread = "sleep"
    /\ tel' = [tel EXCEPT !.objs[k].thread = "loop"]
    /\ UNCHANGED <<clock, nottel>>

\* run_vllm_test_local.py:165, 195 ; ci_benchmark_http.py:121, 128
\* gpu_monitor.py:157-159: generation failed or the sandbox returned;
\* stop_and_summary clears the flag and joins.
TelStop ==
    /\ tel.pc = "work"
    /\ tel' = [tel EXCEPT !.pc = "join", !.stop_ts = clock,
                          !.objs[monitor_for(tel.i)].running = FALSE]
    /\ UNCHANGED <<clock, nottel>>

\* gpu_monitor.py:159-187, then run_vllm_test_local.py:171-173, 201-223 ;
\* ci_benchmark_http.py:122-123.  The join ends, the buffer of the task's
\* monitor is copied, and the summary of the copy is recorded for the task.
TelJoinDone ==
    /\ tel.pc = "join"
    /\ LET o == monitor_for(tel.i)
       IN  /\ JoinReturns(tel.objs[o].thread, tel.stop_ts, clock)
           /\ tel' = [tel EXCEPT !.pc = "loop", !.i = @ + 1,
                        !.recorded = Append(@, [task_id |-> tel.i,
                                                counted |-> tel.objs[o].samples,
                                                left_alive |-> tel.objs[o].thread # "done"])]
    /\ clock' = 0
    /\ UNCHANGED nottel

\* run_vllm_test_local.py:225 ; ci_benchmark_http.py:147: the loop is over.
TelFinish ==
    /\ tel.pc = "loop"
    /\ tel.i > tel.ntasks
    /\ tel' = [tel EXCEPT !.pc = "done"]
    /\ UNCHANGED <<clock, nottel>>

\* Time passes while the task works and while the join waits.
TelTick ==
    /\ \/ tel.pc = "work" /\ clock < MaxWork
       \/ /\ tel.pc = "join"
          /\ ~JoinReturns(tel.objs[monitor_for(tel.i)].thread, tel.stop_ts, clock)
    /\ clock < MaxWork + JOIN_TIMEOUT + 1
    /\ clock' = clock + 1
    /\ UNCHANGED <<tel, nottel>>

NextTel ==
    \/ TelStartTask
    \/ TelStop
    \/ TelJoinDone
    \/ TelFinish
    \/ TelTick
    \/ \E k \in 1..MaxTasks : TelThreadBegin(k)
    \/ \E k \in 1..MaxTasks : TelThreadLoopTest(k)
    \/ \E k \in 1..MaxTasks : TelThreadSample(k)
    \/ \E k \in 1..MaxTasks : TelThreadWake(k)

SpecTel == InitTel /\ [][NextTel]_vars

\* ====================================================== the harness alone
\* The harness script of one call, written and run to its end, for every
\* candidate code and every assertion list; here an assertion may also end
\* the interpreter (the function it calls runs sys.exit()).

HarnessTestStmts == TestStmts \cup {StmtExit}
HarnessTestLists == UNION {[1..n -> HarnessTestStmts] : n \in 0..MaxTests}

InitHarness ==
    /\ clock = 0
    /\ agg = NotInUse
    /\ gen = NotInUse
    /\ ext = NotInUse
    /\ \E code \in Codes, tests \in HarnessTestLists :
          sb = [SandboxCall(code, tests, 1) EXCEPT !.pc = "harness"]
    /\ proc = "none"
    /\ container = "none"
    /\ pipe = NoPipe
    /\ orch = IdleOrch
    /\ mon = [k \in TaskIds |-> NewMonitor]
    /\ gm = NotInUse /\ acct = NotInUse /\ launch = NotInUse /\ fine = NotInUse
    /\ tel = NotInUse

\* sandbox_runner.py:83-105: the script is put together and written.
HarnessWrite ==
    /\ sb.pc = "harness"
    /\ sb' = [sb EXCEPT !.pc = "written", !.written = TRUE,
                        !.script = script_text(sb.code, sb.tests)]
    /\ UNCHANGED <<clock, proc, container, pipe, orch, mon, units>>

\* `python -u run_test.py` runs the script to its end, if it has one.
HarnessRun ==
    /\ sb.pc = "written"
    /\ PythonRun(sb.script).term
    /\ sb' = [sb EXCEPT !.pc = "ran"]
    /\ pipe' = PythonRun(sb.script)
    /\ UNCHANGED <<clock, proc, container, orch, mon, units>>

NextHarness == HarnessWrite \/ HarnessRun

SpecHarness == InitHarness /\ [][NextHarness]_vars

\* =================================================== candidate extraction
\* The extraction of the candidate code from the generated text, for every
\* text and signature over a two-letter alphabet.  A str is the sequence of
\* its characters; Python counts positions from 0.

\* Longest generated text tried.
MaxText == 4
\* Longest signature tried.
MaxSignature == 2

Chars == {"d", "x"}
Strs(n) == UNION {[1..k -> Chars] : k \in 0..n}

\* text[i:i+len(sub)] == sub, for a 0-based i.
MatchesAt(text, sub, i) ==
    /\ i + Len(sub) <= Len(text)
    /\ \A j \in 1..Len(sub) : text[i + j] = sub[j]

\* Variant: the highest index at which sub occurs (str.rfind).
find_highest(text, sub) ==
    LET hits == {i \in 0..Len(text) : MatchesAt(text, sub, i)}
    IN  IF hits = {} THEN -1
        ELSE CHOOSE i \in hits : \A j \in hits : j <= i

\* str.find: the lowest index at which sub occurs in text, -1 if it does not.
find(text, sub) ==
    LET hits == {i \in 0..Len(text) : MatchesAt(text, sub, i)}
    IN  IF hits = {} THEN -1
        ELSE CHOOSE i \in hits : \A j \in hits : i <= j

\* text[idx:] for 0 <= idx <= len(text).
SliceFrom(text, idx) == SubSeq(text, idx + 1, Len(text))

\* run_vllm_test_local.py:176-179 ; ci_benchmark_http.py:125-126
generated_code(text, signature) ==
    LET idx == find(text, signature)
    IN  IF idx # -1 THEN SliceFrom(text, idx) ELSE text

InitExtract ==
    /\ clock = 0
    /\ agg = NotInUse
    /\ gen = NotInUse
    /\ \E text \in Strs(MaxText), signature \in Strs(MaxSignature) :
          ext = [pc |-> "generated", text |-> text, signature |-> signature,
                 code |-> <<>>]
    /\ orch = IdleOrch
    /\ mon = [k \in TaskIds |-> NewMonitor]
    /\ sb = IdleSandbox
    /\ proc = "none"
    /\ container = "none"
    /\ pipe = NoPipe
    /\ gm = NotInUse /\ acct = NotInUse /\ launch = NotInUse /\ fine = NotInUse
    /\ tel = NotInUse

\* run_vllm_test_local.py:176-179 ; ci_benchmark_http.py:125-126
Extract ==
    /\ ext.pc = "generated"
    /\ ext' = [ext EXCEPT !.pc = "extracted",
                          !.code = generated_code(ext.text, ext.signature)]
    /\ UNCHANGED <<clock, sbvars, orch, mon, gm, acct, launch, fine, tel, gen, agg>>

NextExtract == Extract

SpecExtract == InitExtract /\ [][NextExtract]_vars

\* ==================================================== the generation calls
\* run_benchmark's generation step on its own: for each task the coroutine
\* generate_with_vllm hands blocking_gen to the loop's default executor and
\* awaits it under asyncio.wait_for(..., timeout=300).  The executor runs
\* blocking_gen in a thread of its pool; the pool has more threads than the
\* run has tasks.  The clock counts the seconds of the current wait.

\* run_vllm_test_local.py:163   asyncio.wait_for(..., timeout=300)
GEN_TIMEOUT == 300

\* asyncio.wait_for: the deadline of the wait is reached with the awaited
\* future still pending.
GenDeadlineDue(g, now) ==
    g.pc = "awaiting" /\ g.worker[g.i] = "running" /\ now = GEN_TIMEOUT

InitGen ==
    /\ clock = 0
    /\ agg = NotInUse
    /\ \E n \in 1..MaxTasks :
          gen = [pc |-> "task", ntasks |-> n, i |-> 1,
                 worker |-> [k \in TaskIds |-> "none"], results |-> <<>>]
    /\ orch = IdleOrch
    /\ mon = [k \in TaskIds |-> NewMonitor]
    /\ sb = IdleSandbox
    /\ proc = "none"
    /\ container = "none"
    /\ pipe = NoPipe
    /\ gm = NotInUse /\ acct = NotInUse /\ launch = NotInUse /\ fine = NotInUse
    /\ tel = NotInUse /\ ext = NotInUse

notgen == <<sb, proc, container, pipe, orch, mon, gm, acct, launch, fine, tel, ext, agg>>

\* run_vllm_test_local.py:163, 63-89
\* generate_with_vllm is called for task i: the import of vllm fails
\* (RuntimeError, line 67), or blocking_gen is handed to the executor, a
\* thread of the pool begins it, and the coroutine awaits its future.
GenCall ==
    /\ gen.pc = "task"
    /\ gen.i <= gen.ntasks
    /\ \/ gen' = [gen EXCEPT !.pc = "gen_error"]
       \/ gen' = [gen EXCEPT !.pc = "awaiting", !.worker[gen.i] = "running"]
    /\ clock' = 0
    /\ UNCHANGED notgen

\* run_vllm_test_local.py:69-86
\* blocking_gen of task k comes to its end in its thread, returning the
\* text or raising RuntimeError, whether or not anything still awaits it.
GenWorkerEnds(k) ==
    /\ gen.worker[k] = "running"
    /\ \E how \in {"returned", "raised"} :
          gen' = [gen EXCEPT !.worker[k] = how]
    /\ UNCHANGED <<clock, notgen>>

\* run_vllm_test_local.py:89-100, 163-164
\* The awaited future is done: the coroutine goes on to the token count and
\* returns gen_info, or the exception of blocking_gen reaches the except
\* clause of run_benchmark.
GenResume ==
    /\ gen.pc = "awaiting"
    /\ gen.worker[gen.i] \in {"returned", "raised"}
    /\ gen' = [gen EXCEPT !.pc = IF gen.worker[gen.i] = "returned"
                                 THEN "generated" ELSE "gen_error"]
    /\ UNCHANGED <<clock, notgen>>

\* run_vllm_test_local.py:163-164
\* The deadline of wait_for: the awaiting coroutine is cancelled and
\* TimeoutError reaches the except clause.  The cancellation is that of
\* the coroutine and of the future it awaited; the thread that runs
\* blocking_gen is not interrupted.
GenDeadline ==
    /\ GenDeadlineDue(gen, clock)
    /\ gen' = [gen EXCEPT !.pc = "gen_error"]
    /\ UNCHANGED <<clock, notgen>>

\* run_vllm_test_local.py:165-173, 176-223
\* The rest of the task body: the failure is recorded, or the candidate is
\* executed and its result recorded; the loop goes to the next task.
GenTaskDone ==
    /\ gen.pc \in {"generated", "gen_error"}
    /\ gen' = [gen EXCEPT !.results = Append(@, gen.pc), !.i = @ + 1,
                          !.pc = "task"]
    /\ UNCHANGED <<clock, notgen>>

\* run_vllm_test_local.py:225-246
GenFinish ==
    /\ gen.pc = "task"
    /\ gen.i > gen.ntasks
    /\ gen' = [gen EXCEPT !.pc = "done"]
    /\ UNCHANGED <<clock, notgen>>

\* The seconds of the wait pass while the awaited future is pending.
GenTick ==
    /\ gen.pc = "awaiting"
    /\ gen.worker[gen.i] = "running"
    /\ clock < GEN_TIMEOUT
    /\ clock' = clock + 1
    /\ UNCHANGED <<gen, notgen>>

NextGen ==
    \/ GenCall
    \/ \E k \in TaskIds : GenWorkerEnds(k)
    \/ GenResume
    \/ GenDeadline
    \/ GenTaskDone
    \/ GenFinish
    \/ GenTick

SpecGen == InitGen /\ [][NextGen]_vars

\* ================================================ readings of several devices
\* _sample_once and the summary of stop_and_summary over a machine with any
\* number of devices: each tick reads a power (W) and a utilization (%) from
\* every device and folds them into one sample; the summary folds the
\* samples.  Quotients are exact fractions.

\* Devices of the machine at most.
MaxDevices == 2
\* Largest power reading (W) and utilization reading (%) of a device.
MaxReading == 2
\* Samples in the buffer at most.
MaxTicks == 2

\* What one device answers in a tick: p and util of lines 79-85, 113-114.
DeviceReadings == [power_w : 0..MaxReading, util_pct : 0..MaxReading]

\* gpu_monitor.py:70-94 (106-124 with nvidia-smi): the sample of one tick
\* from the readings of the devices, per[i] that of device i.
sample_of_devices(per) ==
    LET n == Len(per)
        power == [i \in 1..n |-> per[i].power_w]
        util == [i \in 1..n |-> per[i].util_pct]
    IN  [per_gpu |-> per,
         total_power_w |-> SeqSum(power),
         avg_util_pct |-> Lowest(Rat(SeqSum(util), IF n > 1 THEN n ELSE 1)),
         max_power_w |-> IF n = 0 THEN 0 ELSE SeqMax(power),
         max_util_pct |-> IF n = 0 THEN 0 ELSE SeqMax(util)]

\* gpu_monitor.py:163-187 on such samples: the four aggregates.
summary_of_devices(samples) ==
    LET n == Len(samples)
        utils == RatSum([i \in 1..n |-> samples[i].avg_util_pct])
    IN  IF n = 0
        THEN [samples |-> 0, avg_power_w |-> Zero, max_power_w |-> 0,
              avg_util_pct |-> Zero, max_util_pct |-> 0]
        ELSE [samples |-> n,
              avg_power_w |->
                 Lowest(Rat(SeqSum([i \in 1..n |-> samples[i].total_power_w]), n)),
              max_power_w |-> SeqMax([i \in 1..n |-> samples[i].max_power_w]),
              avg_util_pct |-> Lowest(Rat(utils.num, utils.den * n)),
              max_util_pct |-> SeqMax([i \in 1..n |-> samples[i].max_util_pct])]

InitDevices ==
    /\ clock = 0
    /\ \E n \in 0..MaxDevices :
          agg = [pc |-> "sampling", devices |-> n, samples |-> <<>>,
                 summary |-> summary_of_devices(<<>>)]
    /\ orch = IdleOrch
    /\ mon = [k \in TaskIds |-> NewMonitor]
    /\ sb = IdleSandbox
    /\ proc = "none"
    /\ container = "none"
    /\ pipe = NoPipe
    /\ gm = NotInUse /\ acct = NotInUse /\ launch = NotInUse /\ fine = NotInUse
    /\ tel = NotInUse /\ ext = NotInUse /\ gen = NotInUse

notagg == <<clock, sb, proc, container, pipe, orch, mon, gm, acct, launch, fine, tel, ext, gen>>

\* gpu_monitor.py:136-142: one tick of _run; every device answers with some
\* reading.
DevSample ==
    /\ agg.pc = "sampling"
    /\ Len(agg.samples) < MaxTicks
    /\ \E per \in [1..agg.devices -> DeviceReadings] :
          agg' = [agg EXCEPT !.samples = Append(@, sample_of_devices(per))]
    /\ UNCHANGED notagg

\* gpu_monitor.py:161-187: stop_and_summary on the samples taken.
DevSummarize ==
    /\ agg.pc = "sampling"
    /\ agg' = [agg EXCEPT !.pc = "summarized",
                          !.summary = summary_of_devices(agg.samples)]
    /\ UNCHANGED notagg

NextDevices == DevSample \/ DevSummarize

SpecDevices == InitDevices /\ [][NextDevices]_vars

\* ================================================================ claims
\* ------------------------------------------------ run_code_in_sandbox

Returned == sb.pc = "returned"
\* The call got as far as launching the client process.
Launched == sb.launch_ts >= 0
\* The call returned from the parse of a finished process's output.
ReturnedFromParse == Returned /\ proc = "exited"

\* The candidate code raises at module level, or the first statement of the
\* assertion list that does not complete normally raises.
CandidateThrows ==
    \/ sb.code.end.do = "raise"
    \/ /\ sb.code.end.do = "ok"
       /\ \E i \in 1..Len(sb.tests) :
             /\ sb.tests[i].do = "raise"
             /\ \A j \in 1..(i - 1) : sb.tests[j].do = "ok"

\* The candidate code completes and every assertion of the list holds.
CandidateSatisfiesAll ==
    /\ sb.code.end.do = "ok"
    /\ \A i \in 1..Len(sb.tests) : sb.tests[i].do = "ok"

\* out has a trailing non-blank line and it is a JSON object.
TrailingLineIsObject(out) ==
    \E i \in 1..Len(out) :
       /\ out[i].kind = "obj"
       /\ \A j \in (i + 1)..Len(out) : out[j].kind = "blank"

\* The candidate prints nothing itself, neither while it runs nor at exit.
CandidateSilent == sb.code.out = <<>> /\ sb.code.late = <<>>

\* C1 (as claimed, for candidate code that never terminates): when
\* run_code_in_sandbox returns the timeout outcome, neither the docker
\* client process nor the container it started is still running.
C1_NoProcessAfterTimeout ==
    (Returned /\ sb.result.meta = PyStr("timeout") /\ ~PythonRun(sb.script).term)
        => (proc # "running" /\ container # "running")

\* C6 (as claimed, for candidate code that prints nothing itself): whenever
\* the candidate code throws or an assertion fails, run_code_in_sandbox
\* returns passed=false with a detail that is a non-empty string.
C6_FailureHasDetail ==
    (Returned /\ Launched /\ CandidateSilent /\ CandidateThrows)
        => /\ sb.result.passed = FALSE
           /\ sb.result.meta.t = "str"
           /\ sb.result.meta.s # ""

\* C7 (as claimed, for candidate code that prints nothing itself): for an
\* assertion list of any length all of whose assertions the code satisfies,
\* with runtime and image available and the run finished before the
\* deadline, the result is passed=true, detail null.
C7_SatisfiedPasses ==
    (ReturnedFromParse /\ CandidateSilent /\ CandidateSatisfiesAll)
        => (sb.result.passed = TRUE /\ sb.result.meta = PyNone)

\* C8: when the trailing non-empty stdout line of the finished process is no
\* JSON object (no output, non-JSON text, JSON that is no object), the
\* result is passed=false, detail 'invalid_output', with the raw stdout and
\* stderr of the process unchanged.
C8_InvalidOutput ==
    (ReturnedFromParse /\ ~TrailingLineIsObject(pipe.stdout))
        => sb.result = Result(FALSE, pipe.stdout, pipe.stderr, PyStr("invalid_output"))

C8_Witness ==
    /\ ReturnedFromParse
    /\ ~TrailingLineIsObject(pipe.stdout)
    /\ Len(pipe.stdout) > 0
    /\ sb.result.meta = PyStr("invalid_output")

C10_DockerNotAvailable ==
    (sb.which_seen = "None")
        => /\ Returned
           /\ sb.result = Result(FALSE, <<>>, "", PyStr("docker_not_available"))
           /\ sb.return_ts = sb.call_ts
           /\ ~sb.inspected /\ ~sb.built /\ ~sb.written
           /\ proc = "none" /\ container = "none"

C10_Witness ==
    /\ Returned
    /\ sb.which_seen = "None"
    /\ sb.result.meta = PyStr("docker_not_available")

\* ------------------------------------------------------- orchestrators

\* C2 (as claimed): in both orchestrators the monitor is started before the
\* generation call begins, and stop_and_summary is called on every exit
\* path of the task body: for every task the orchestrator has left, by
\* going on to the next task or by an exception, the stop was called.
C2_StopOnEveryExit ==
    /\ (orch.pc = "gen") => mon[orch.i].thread # "none"
    /\ \A k \in TaskIds : (k < orch.i) => ~mon[k].running
    /\ (orch.pc = "aborted" /\ orch.log.started) => orch.log.stopped

\* C3 (as claimed): under every interleaving, the duration_s of the summary
\* is at least the time between the start of the generation call and the
\* completion of the sandbox execution of that task.
C3_DurationCoversWindow ==
    (orch.log.summarized /\ orch.log.executed)
        => orch.log.duration_s >= orch.log.exec_done_ts - orch.log.gen_start_ts

\* C4 (as claimed): a failure confined to one task never aborts the batch;
\* the only abort is the start-up one, when the image cannot be ensured.
C4_TaskFailureNeverAborts ==
    (orch.pc = "aborted") => orch.abort_cause = "ensure_sandbox_image_built"

\* C5: whenever a report is emitted, its task list holds exactly one entry
\* per input task, in input order, each with an outcome; tasks whose
\* generation failed are among them.
C5_ReportEnumeratesTasks ==
    orch.reported =>
        /\ Len(orch.report) = orch.ntasks
        /\ \A k \in 1..orch.ntasks :
              /\ orch.report[k].task_id = k
              /\ orch.report[k].kind \in {"generation_error", "executed"}
              /\ orch.report[k].passed \in BOOLEAN

C5_Witness ==
    /\ orch.reported
    /\ \E k \in 1..Len(orch.report) : orch.report[k].kind = "generation_error"
    /\ \E k \in 1..Len(orch.report) : orch.report[k].kind = "executed"

\* The failures the error taxonomy calls fatal to the whole run, as
\* run_code_in_sandbox reports them (sandbox_runner.py:71, 77).
InfrastructureFailure(error) ==
    error \in {PyStr("docker_not_available"), PyStr("image_build_failed:e")}

\* C11 (as claimed): when the runtime is absent or the image cannot be
\* ensured, at start-up or while a later task is executed, the orchestrator
\* aborts at once: with such a failure among its results it starts no
\* further task and emits no report.
C11_InfrastructureFailureAborts ==
    /\ (orch.startup.outcome \notin {"", "True"}) => orch.pc = "aborted"
    /\ (\E k \in 1..Len(orch.results) : InfrastructureFailure(orch.results[k].error))
          => (orch.pc \notin {"gen", "sandbox", "join", "done"} /\ ~orch.reported)

\* No monitor was made, no generation or execution began, nothing was
\* recorded and no report was written.
NothingProcessed ==
    /\ \A k \in TaskIds : mon[k] = NewMonitor
    /\ ~orch.log.started
    /\ orch.results = <<>>
    /\ ~orch.reported
    /\ sb = IdleSandbox /\ proc = "none" /\ container = "none"

\* C12: if the runtime is unreachable when the orchestrator starts, the
\* orchestrator aborts before any task is processed: no sampler is started,
\* no generation call is made, no sandbox execution happens and no report
\* is written.
C12_NoRuntimeAbortsBeforeTasks ==
    (orch.startup.which = "None") => (orch.pc = "aborted" /\ NothingProcessed)

C12_Witness ==
    /\ orch.startup.which = "None"
    /\ orch.pc = "aborted"
    /\ orch.abort_cause = "ensure_sandbox_image_built"

\* The sampling thread of task k is alive.
ThreadAlive(k) == mon[k].thread \notin {"none", "done"}

\* C13 (as claimed): no sampling thread leaks across tasks: when the
\* orchestrator has started the sampler of a task, or has emitted the
\* report, the thread of every earlier task has terminated, so at most one
\* sampling thread is alive.
C13_NoThreadLeak ==
    (orch.pc = "gen" \/ orch.reported)
        => /\ \A k \in TaskIds : (k < orch.i) => ~ThreadAlive(k)
           /\ Cardinality({k \in TaskIds : ThreadAlive(k)}) <= 1

\* ---------------------------------------------------------- GPUMonitor

\* stop_and_summary has returned.
Summarized == gm.pc \in {"summarized", "accounted"}

\* C14: after one start(), stop_and_summary clears the running flag, waits
\* for the sampling thread for at most 5 s, and returns the summary of the
\* samples that are in the buffer when it copies them, also when the thread
\* is still blocked in a query and when there is no sample at all.
C14_StopReturnsSummary ==
    /\ (gm.pc = "join") => (~gm.running /\ clock <= gm.stop_ts + JOIN_TIMEOUT)
    /\ Summarized =>
          /\ ~gm.running
          /\ gm.return_ts <= gm.stop_ts + JOIN_TIMEOUT
          /\ gm.summary.samples = Len(gm.copied)
          /\ gm.summary = summary(gm.copied, gm.duration, gm.sample_interval)

C14_Witness ==
    /\ gm.pc = "summarized"
    /\ gm.thread = "query"
    /\ gm.summary.samples = 0
    /\ gm.return_ts = gm.stop_ts + JOIN_TIMEOUT

\* The four aggregates of a sample are zero.
ZeroAggregates(s) ==
    /\ s.total_power_w = 0
    /\ s.avg_util_pct = 0
    /\ s.max_power_w = 0
    /\ s.max_util_pct = 0

C16_ZeroSamplesAllZero ==
    (Summarized /\ gm.summary.samples = 0)
        => /\ gm.summary.duration_s = 0
           /\ gm.summary.avg_power_w = Zero
           /\ gm.summary.max_power_w = 0
           /\ gm.summary.avg_util_pct = Zero
           /\ gm.summary.max_util_pct = 0
           /\ gm.summary.sample_interval_s = 0

\* C16 (amended): with zero samples collected, stop_and_summary returns a
\* summary with sample count 0 whose power and utilization fields are zero;
\* duration_s is the measured duration and sample_interval_s the configured
\* interval.
C16_ZeroSamplesZeroReadings ==
    (Summarized /\ Len(gm.copied) = 0)
        => /\ gm.summary.samples = 0
           /\ gm.summary.avg_power_w = Zero
           /\ gm.summary.max_power_w = 0
           /\ gm.summary.avg_util_pct = Zero
           /\ gm.summary.max_util_pct = 0
           /\ gm.summary.duration_s = gm.duration
           /\ gm.summary.sample_interval_s = gm.sample_interval

C16_Witness ==
    /\ Summarized
    /\ gm.summary.samples = 0
    /\ gm.summary.duration_s > 0
    /\ gm.summary.sample_interval_s > 0

\* C17 (as claimed): whatever the constructor arguments, the buffer never
\* holds more than the capacity, and it always equals the most recent
\* samples in arrival order.
C17_BufferBounded ==
    /\ Len(gm.samples) <= MaxBuffer
    /\ \A i \in 1..Len(gm.samples) :
          gm.samples[i].seq = gm.arrivals - Len(gm.samples) + i

\* C19 (as claimed): for every emission factor and every interleaving of
\* the sampler with stop_and_summary, the kwh and kg_co2 computed from the
\* summary are non-negative.
C19_EnergyNonNegative ==
    (gm.pc = "accounted") => (RatNonNeg(gm.kwh) /\ RatNonNeg(gm.kg_co2))

\* -------------------------------------------------- energy accounting

\* C18: in every emitted report, total_kwh equals the sum of the kwh values
\* of all task results in the report, the tasks whose generation failed and
\* the tasks whose execution timed out included.
C18_TotalIsSumOfTasks ==
    acct.reported =>
        /\ Len(acct.report.tasks) = acct.ntasks
        /\ \A k \in 1..Len(acct.report.tasks) : acct.report.tasks[k].has_kwh
        /\ RatEq(acct.report.total_kwh,
                 RatSum([k \in 1..Len(acct.report.tasks) |-> acct.report.tasks[k].kwh]))

C18_Witness ==
    /\ acct.reported
    /\ \E j, k \in 1..Len(acct.report.tasks) :
          /\ acct.report.tasks[j].ending = "generation_error"
          /\ acct.report.tasks[j].kwh.num > 0
          /\ acct.report.tasks[k].ending = "timeout"
          /\ acct.report.tasks[k].kwh.num > 0
    /\ acct.report.total_kwh.num > 0

\* ------------------------------------------------------ the docker launch

\* The container asked for is isolated as the launch is meant to isolate
\* it: removed on exit, no network, every capability dropped and none given back, no new
\* privileges, read-only root filesystem, the 64 MB /tmp, a memory ceiling
\* and a CPU ceiling equal to the requested ones, 64 processes at most, the
\* unprivileged user, and the scratch directory as the only mount.
Isolated(c, mem_limit_mb, cpus) ==
    /\ c.rm
    /\ c.network = "none"
    /\ "ALL" \in c.cap_drop /\ ~c.privileged
    /\ "no-new-privileges" \in c.security_opt
    /\ c.read_only
    /\ c.tmpfs = {"/tmp:rw,size=64m"}
    /\ c.memory_mb > 0 /\ c.memory_mb = mem_limit_mb
    /\ c.cpus > 0 /\ c.cpus = cpus
    /\ c.pids_limit = "64"
    /\ c.user = "9999:9999"
    /\ c.volumes = {"td:/work:rw,delegated"} /\ c.workdir = "/work"

\* C20 (as claimed): whenever the sandbox process is launched, whatever the
\* values of mem_limit_mb, cpus and image, the container it asks for has no
\* network, all capabilities dropped, no new privileges, a read-only root
\* filesystem, an ephemeral /tmp, the requested memory and CPU ceilings, a
\* process-count ceiling of 64, removal on exit, the user 9999:9999, and a
\* scratch mount that holds only the harness script.
C20_LaunchAlwaysIsolated ==
    (launch.pc = "launched") =>
        /\ launch.scratch = {"run_test.py"}
        /\ Isolated(ContainerOf(launch.argv), launch.mem_limit_mb, launch.cpus)


\* ------------------------------------- run_code_in_sandbox, the verdict

\* C21 (as claimed): run_code_in_sandbox returns passed=true only if the
\* candidate code ran to completion and every assertion of a non-empty list
\* was executed in the guarded block without raising; a result-shaped line
\* printed by the candidate, an exit before the assertions, or output after
\* the harness's result line cannot make it return passed=true.
C21_PassedOnlyIfAssertionsHeld ==
    (Returned /\ sb.result.passed = TRUE)
        => /\ Len(sb.tests) > 0
           /\ CandidateSatisfiesAll
           /\ TryBlock(sb.script.try_body, 1).ctl = "print"

\* ------------------------------------------------- orchestrators, tasks

\* The error field of a recorded task result is a non-empty string.
ErrorPopulated(tr) == tr.error.t = "str" /\ tr.error.s # ""

\* C22 (as claimed, the part that is a state property): the tasks are
\* recorded in order, one result each; the executor is invoked only after
\* the generation call of the task returned, and never for a task whose
\* generation failed; and every task result recorded for a generation
\* failure or an execution failure has a non-null, non-empty error field.
C22_FailedTaskHasError ==
    /\ \A k \in 1..Len(orch.results) : orch.results[k].task_id = k
    /\ (orch.pc = "sandbox") => (orch.log.started /\ orch.path = "")
    /\ (orch.path = "gen_error") => ~orch.log.executed
    /\ \A k \in 1..Len(orch.results) :
          ~orch.results[k].passed => ErrorPopulated(orch.results[k])

\* ------------------------------------- energy accounting, failed generation

\* C23 (as claimed): in both orchestrators the task result recorded for a
\* failed generation call carries energy and carbon values computed from
\* the monitor's summary: kwh = avg_power_w * duration_s / 1000 and
\* kg_co2 = kwh * emission factor.
C23_GenerationFailureRecordsEnergy ==
    \A k \in 1..Len(acct.results) :
       (acct.results[k].ending = "generation_error") =>
          /\ acct.results[k].has_kwh
          /\ RatEq(acct.results[k].kwh, kwh_of(acct.results[k].monitor))
          /\ RatEq(acct.results[k].kg_co2,
                   kg_co2_of(acct.results[k].kwh, acct.energy_mix))

\* ------------------------------------------------ GPUMonitor, the lock

\* The sampling thread is inside its `with self._lock:` block.
ThreadInBlock == fine.tpc \in {"append", "trim"}
\* The foreground flow is inside the `with self._lock:` block of
\* stop_and_summary.
ForegroundInBlock == fine.fpc = "copying"

\* C24: every append to and eviction from the sample buffer by the sampling
\* thread, and every read of it by stop_and_summary, is made holding the
\* lock; the two are never inside their locked blocks together, the buffer
\* does not change while the snapshot is taken, and the snapshot returned is
\* the buffer as it was when stop_and_summary entered the lock, also when
\* the join timed out and the thread is still running.
C24_BufferOnlyUnderLock ==
    /\ \A a \in fine.acc : (a.var = "_samples") => a.locked
    /\ ~(ThreadInBlock /\ ForegroundInBlock)
    /\ ForegroundInBlock =>
          (fine.samples = fine.ref /\ fine.lists[fine.ref] = fine.at_entry)
    /\ (fine.fpc = "returned") => (fine.copied = fine.at_entry)

\* The join timed out, the thread went on to append (and evict) after the
\* snapshot was taken, and the snapshot was not empty.
C24_Witness ==
    /\ fine.fpc = "returned"
    /\ fine.timed_out
    /\ Len(fine.copied) > 0
    /\ fine.lists[fine.samples] # fine.copied
    /\ Len(fine.lists) > 1

\* C25 (as claimed): the only fields written by one of the two flows and
\* read by the other after construction are the sample buffer, always under
\* the lock, and the stop signal _running.
C25_OnlyBufferAndStopSignalShared ==
    \A a, b \in fine.acc :
       (a.who # b.who /\ a.var = b.var /\ a.kind = "w" /\ b.kind = "r")
          => \/ a.var = "_running"
             \/ (a.var = "_samples" /\ a.locked /\ b.locked)

\* ------------------------------------- run_code_in_sandbox, order of steps

\* C26 (as claimed): a process is launched only after the runtime check and
\* the image ensure went through and the harness was written, the image
\* that was ensured being the image the process is launched with; and a
\* call that returns 'image_build_failed' has written no harness and
\* launched nothing.
C26_LaunchedOnlyAfterImageEnsured ==
    /\ (launch.pc = "launched") =>
          /\ launch.scratch = {"run_test.py"}
          /\ launch.ensured = launch.image
    /\ (launch.pc = "returned" /\ launch.meta = "image_build_failed") =>
          (launch.scratch = {} /\ launch.argv = <<>>)

\* ------------------------------------------------ telemetry across tasks

\* C27: the summary recorded for a task counts only samples taken by the
\* thread of that task's own monitor while that task was the running one;
\* a sample taken during another task, by a thread left alive or by the
\* other task's thread, is never counted; and the monitor a task starts
\* with holds nothing of an earlier task.
C27_TelemetryIndependentAcrossTasks ==
    /\ \A r \in 1..Len(tel.recorded) :
          \A j \in 1..Len(tel.recorded[r].counted) :
             /\ tel.recorded[r].counted[j].taker = tel.recorded[r].task_id
             /\ tel.recorded[r].counted[j].during = tel.recorded[r].task_id
    /\ (tel.pc = "loop" /\ tel.i <= tel.ntasks) =>
          tel.objs[monitor_for(tel.i)] = NewSampler
    /\ (tel.pc \in {"work", "join"}) =>
          \A j \in 1..Len(tel.objs[monitor_for(tel.i)].samples) :
             tel.objs[monitor_for(tel.i)].samples[j] = TelSample(tel.i, tel.i)

\* The thread of task 1 was left alive by the join and took a sample while
\* task 2 was running; both tasks have a summary with samples counted.
C27_Witness ==
    /\ Len(tel.recorded) >= 2
    /\ tel.recorded[1].left_alive
    /\ Len(tel.recorded[1].counted) > 0
    /\ Len(tel.recorded[2].counted) > 0
    /\ \E j \in 1..Len(tel.objs[1].samples) : tel.objs[1].samples[j].during = 2

\* ------------------------------------------------------- the harness alone

\* The index of the first assertion of the list that does not hold or
\* raises, 0 when every assertion holds.
FirstFailing(tests) ==
    IF \A i \in 1..Len(tests) : tests[i].do = "ok" THEN 0
    ELSE CHOOSE i \in 1..Len(tests) :
            /\ tests[i].do # "ok"
            /\ \A j \in 1..(i - 1) : tests[j].do = "ok"

\* The result line C28 describes for an assertion list: passed with a null
\* detail when every assertion holds, else failed with the detail of the
\* first failing assertion, prefixed when it is no AssertionError.
ClaimedResultLine(tests) ==
    LET i == FirstFailing(tests)
    IN  IF i = 0 THEN Line("obj", PyBool(TRUE), PyNone)
        ELSE Line("obj", PyBool(FALSE),
                  IF tests[i].cls = "AssertionError" THEN PyStr(tests[i].msg)
                  ELSE PyStr("EXCEPTION: " \o tests[i].msg))

\* The guarded block is entered and the first assertion that does not hold
\* fails or raises (none runs for ever).
BlockEnteredAndLeft ==
    /\ sb.pc = "ran"
    /\ Len(sb.tests) > 0
    /\ sb.code.end.do = "ok"
    /\ FirstFailing(sb.tests) # 0 => sb.tests[FirstFailing(sb.tests)].do = "raise"

\* C28 (as claimed): on every path through the guarded block, whichever
\* assertion fails or raises, the harness prints exactly one result line,
\* after everything the script printed before, and the line is the verdict
\* of the first failing assertion: no later assertion changes it.
C28_OneResultLineOfFirstFailure ==
    BlockEnteredAndLeft =>
        pipe.stdout = sb.code.out \o <<ClaimedResultLine(sb.tests)>> \o sb.code.late

\* --------------------------------------------------- candidate extraction

\* The signature occurs in the text at the 0-based position i.
OccursAt(text, signature, i) ==
    /\ i >= 0 /\ i + Len(signature) <= Len(text)
    /\ SubSeq(text, i + 1, i + Len(signature)) = signature

\* C29: if the signature occurs in the generated text, the candidate code is
\* the part of the text from the first occurrence of the signature to the
\* end; if it does not occur, the candidate code is the whole text.  Either
\* way the candidate code is a suffix of the generated text.
C29_ExtractionIsSuffixFromSignature ==
    (ext.pc = "extracted") =>
        /\ IF \E i \in 0..Len(ext.text) : OccursAt(ext.text, ext.signature, i)
           THEN \E i \in 0..Len(ext.text) :
                   /\ OccursAt(ext.text, ext.signature, i)
                   /\ \A j \in 0..(i - 1) : ~OccursAt(ext.text, ext.signature, j)
                   /\ ext.code = SubSeq(ext.text, i + 1, Len(ext.text))
           ELSE ext.code = ext.text
        /\ \E k \in 1..(Len(ext.text) + 1) :
              ext.code = SubSeq(ext.text, k, Len(ext.text))

\* A text with a preamble before the signature, and the signature twice.
C29_Witness ==
    /\ ext.pc = "extracted"
    /\ Len(ext.signature) > 0
    /\ Len(ext.code) < Len(ext.text)
    /\ Cardinality({i \in 0..Len(ext.text) :
                      OccursAt(ext.text, ext.signature, i)}) >= 2

\* ------------------------------------------- energy accounting, formulas

C31_ReportCountsConsistent ==
    acct.reported =>
        LET tasks == acct.report.tasks
            counts == acct.report.summary
        IN  /\ counts.num_tasks = Len(tasks)
            /\ counts.num_passed
                 = Cardinality({k \in 1..Len(tasks) : tasks[k].passed})
            /\ counts.num_failed
                 = Cardinality({k \in 1..Len(tasks) : ~tasks[k].passed})
            /\ \A k \in 1..Len(tasks) :
                  tasks[k].ending = "generation_error" => ~tasks[k].passed
            /\ counts.num_passed + counts.num_failed = counts.num_tasks

\* A report over a task that passed and one whose generation failed.
C31_Witness ==
    /\ acct.reported
    /\ \E i, k \in 1..Len(acct.report.tasks) :
          /\ acct.report.tasks[i].ending = "passed"
          /\ acct.report.tasks[k].ending = "generation_error"
    /\ acct.report.summary.num_passed = 1
    /\ acct.report.summary.num_failed = 1

\* ------------------------------------------------- the generation calls

\* The tasks whose blocking_gen is running in a thread.
GenerationsInProgress == {k \in TaskIds : gen.worker[k] = "running"}

\* C32: at most one generation call is in progress at any time; when the
\* orchestrator is at the start of a task, the generation work started for
\* the tasks before it (a task whose deadline expired among them) is no
\* longer running.
C32_AtMostOneGenerationInProgress ==
    /\ Cardinality(GenerationsInProgress) <= 1
    /\ (gen.pc = "task") => GenerationsInProgress = {}

\* ---------------------------------------------- GPUMonitor, after the stop

\* The flag was cleared by stop_and_summary (line 157).
StopRequested == fine.stop_ts # NoTs
\* The sampling thread has read the cleared flag in its loop test.
ObservedStop == fine.tpc \in {"end", "done"}

\* C33: once stop_and_summary has cleared the running flag the sampling
\* thread appends at most one further sample, the one of the tick it was
\* in when the flag was cleared; the loop test that follows reads the
\* cleared flag and leaves the loop, and the thread that has left the loop
\* starts no tick again.
C33_AtMostOneSampleAfterStop ==
    /\ [](fine.late_appends <= 1)
    /\ [][(StopRequested /\ fine.tpc = "test" /\ fine'.tpc # "test")
             => fine'.tpc = "end"]_vars
    /\ [][ObservedStop => (fine'.tpc \in {"end", "done"}
                            /\ fine'.lists = fine.lists)]_vars

\* The flag is cleared while a query is in progress; its sample is appended
\* after the join gave up, and the thread then ends.
C33_Witness ==
    /\ fine.late_appends = 1
    /\ fine.timed_out
    /\ fine.tpc = "done"

\* ---------------------------------- the docker launch, the image ensured

\* C34: for every value of the image argument, the image whose local
\* existence was checked (and that was built if missing) is the image that
\* docker run is asked to start the harness in.
C34_EnsuredImageIsLaunchedImage ==
    (launch.pc = "launched") =>
        ContainerOf(launch.argv).image = launch.ensured.text

\* ------------------------------------------ readings of several devices

\* C35: in every summary returned by stop_and_summary, whatever the number
\* of devices and their non-negative readings, avg_power_w <= max_power_w
\* and avg_util_pct <= max_util_pct.
C35_AveragesBelowMaxima ==
    (agg.pc = "summarized") =>
        /\ agg.summary.avg_power_w.num
              <= agg.summary.max_power_w * agg.summary.avg_power_w.den
        /\ agg.summary.avg_util_pct.num
              <= agg.summary.max_util_pct * agg.summary.avg_util_pct.den

\* ------------------------------------------------ GPUMonitor, the duration

\* C36: duration_s of every summary returned by stop_and_summary is
\* non-negative in every interleaving: the sampling thread finished (both
\* timestamps set), the thread still running after the bounded join (end
\* timestamp unset), and the thread that never ran (both timestamps unset,
\* each replaced by a clock reading of its own).
C36_DurationNonNegative ==
    Summarized => gm.summary.duration_s >= 0

====
